---- MODULE Spec2Model ----
(***************************************************************************)
(* Model of SourceService (app/services/source/service.py): the ATTACH     *)
(* based source registry, the in-memory credential vault, the local cache  *)
(* of source tables and the folder sources of one project warehouse.       *)
(*                                                                         *)
(* Strings whose characters the code inspects (names, config keys, DSNs)   *)
(* are tuples of one-character strings.  Each public method is one action; *)
(* the engine statements it executes are recorded, in order, in last.log.  *)
(***************************************************************************)
EXTENDS Integers, Sequences, FiniteSets, TLC

VARIABLES
    attached,       \* rows of _sources.attached
    vault,          \* _FULL_CONFIGS[project_id]: name -> full config
    cached_tables,  \* rows of _sources.cached_tables
    cache_schema,   \* tables of schema "cache": local_table -> set of rows
    folders,        \* rows of _sources.folders
    disk,           \* the files currently in the folder directories
    nextId,         \* uuid4() draws: every draw is a value never seen before
    clock,          \* datetime.now(UTC), in hours
    last,           \* the call that has just ended: inputs, statements, result
    _duckdb_conn_lock, \* duckdb_utils._duckdb_conn_lock: the RLock's owner and depth
    threads,        \* per thread: the operation it runs, where it is, its open connections
    run_history,    \* the Asset layer's run history: StepResult rows, append-only
    file_diagnoses, \* rows of _file_assets.file_diagnoses, shared by the projects
    _futures,       \* ApprovalBroker._futures: approval_id -> the future kept for it
    futures,        \* the futures the event loop has created: done or pending, result
    tool_calls,     \* the tool calls that entered awrap_tool_call, and where each stands
    hitl_log        \* what happened, in order: rows persisted, events emitted, decide calls, handler calls

vars == <<attached, vault, cached_tables, cache_schema, folders, disk,
          nextId, clock, last, _duckdb_conn_lock, threads, run_history, file_diagnoses,
          _futures, futures, tool_calls, hitl_log>>

\* the state of the threads that run the operations
thread_vars == <<_duckdb_conn_lock, threads>>
\* the state SourceService never writes: the threads and the other services' tables
\* the state of the approval gate of one agent run
hitl_vars == <<_futures, futures, tool_calls, hitl_log>>
foreign_vars == <<thread_vars, run_history, file_diagnoses, hitl_vars>>
\* the tables and the vault of SourceService
source_vars == <<attached, vault, cached_tables, cache_schema, folders, disk>>
\* the state the Asset layer's planner never writes
not_asset_vars == <<source_vars, thread_vars, nextId, file_diagnoses, hitl_vars>>
\* the state FileDiagnosisService never writes
not_diagnosis_vars == <<source_vars, thread_vars, run_history, clock, hitl_vars>>
\* the state the approval gate never writes
not_hitl_vars == <<source_vars, thread_vars, run_history, file_diagnoses, clock>>

(***************************************************************************)
(* Values.                                                                 *)
(***************************************************************************)
\* Python's None where a string may stand: a tuple that is no string of characters
None == <<"None">>
\* Python's None where a number may stand (NULL in a numeric column) is the
\* empty set, and a number n is {n}
Null == {}
NoExc == [type |-> "none", arg |-> None, message |-> None]
MASK == <<"*", "*", "*">>

LowerChars == {"a","b","c","d","e","f","g","h","i","j","k","l","m",
               "n","o","p","q","r","s","t","u","v","w","x","y","z"}
UpperChars == {"A","B","C","D","E","F","G","H","I","J","K","L","M",
               "N","O","P","Q","R","S","T","U","V","W","X","Y","Z"}
DigitChars == {"0","1","2","3","4","5","6","7","8","9"}

\* str.lower() on one character
LowerChar(c) ==
    CASE c = "A" -> "a" [] c = "B" -> "b" [] c = "C" -> "c" [] c = "D" -> "d"
      [] c = "E" -> "e" [] c = "F" -> "f" [] c = "G" -> "g" [] c = "H" -> "h"
      [] c = "I" -> "i" [] c = "J" -> "j" [] c = "K" -> "k" [] c = "L" -> "l"
      [] c = "M" -> "m" [] c = "N" -> "n" [] c = "O" -> "o" [] c = "P" -> "p"
      [] c = "Q" -> "q" [] c = "R" -> "r" [] c = "S" -> "s" [] c = "T" -> "t"
      [] c = "U" -> "u" [] c = "V" -> "v" [] c = "W" -> "w" [] c = "X" -> "x"
      [] c = "Y" -> "y" [] c = "Z" -> "z" [] OTHER -> c

Lower(s) == [i \in 1..Len(s) |-> LowerChar(s[i])]

\* Python's "sub in s"
Contains(s, sub) ==
    \E i \in 1..(Len(s) - Len(sub) + 1) : SubSeq(s, i, i + Len(sub) - 1) = sub

StartsWith(s, p) == Len(s) >= Len(p) /\ SubSeq(s, 1, Len(p)) = p

(***************************************************************************)
(* re.match(r"^[a-zA-Z_][a-zA-Z0-9_]*$", name): "$" matches at the end of  *)
(* the string and also just before a newline that ends the string.         *)
(***************************************************************************)
IdentStart(c) == c \in LowerChars \cup UpperChars \cup {"_"}
IdentPart(c) == c \in LowerChars \cup UpperChars \cup DigitChars \cup {"_"}

MatchesIdentifier(name) ==
    /\ Len(name) >= 1
    /\ IdentStart(name[1])
    /\ \E k \in 1..Len(name) :
          /\ \A i \in 2..k : IdentPart(name[i])
          /\ \/ k = Len(name)
             \/ k = Len(name) - 1 /\ name[Len(name)] = "\n"

(***************************************************************************)
(* _sanitize_config                                                        *)
(***************************************************************************)
sensitive_keys ==
    { <<"p","a","s","s","w","o","r","d">>, <<"s","e","c","r","e","t">>,
      <<"t","o","k","e","n">>, <<"k","e","y">>,
      <<"c","r","e","d","e","n","t","i","a","l">> }

IsSensitiveKey(k) == \E s \in sensitive_keys : Contains(Lower(k), s)

\* masking only the keys that are one of the sensitive words, letter for letter
_sanitize_config_exact(config) ==
    [k \in DOMAIN config |-> IF k \in sensitive_keys THEN MASK ELSE config[k]]

_sanitize_config(config) ==
    [k \in DOMAIN config |-> IF IsSensitiveKey(k) THEN MASK ELSE config[k]]

\* json.dumps / json.loads of a dict of strings: the stored text and its parse
JsonDumps(d) == [json |-> d]
JsonLoads(j) == j.json

(***************************************************************************)
(* Dictionaries: Python dicts are functions with a finite domain.          *)
(***************************************************************************)
EmptyDict == [k \in {} |-> None]
Put(d, k, v) == [x \in DOMAIN d \cup {k} |-> IF x = k THEN v ELSE d[x]]
Pop(d, k) == [x \in DOMAIN d \ {k} |-> d[x]]
Get(d, k, default) == IF k \in DOMAIN d THEN d[k] ELSE default

FirstIndex(s, C) ==
    IF \E i \in 1..Len(s) : s[i] \in C
    THEN CHOOSE i \in 1..Len(s) : s[i] \in C /\ \A j \in 1..(i-1) : s[j] \notin C
    ELSE 0

LastIndex(s, C) ==
    IF \E i \in 1..Len(s) : s[i] \in C
    THEN CHOOSE i \in 1..Len(s) : s[i] \in C /\ \A j \in (i+1)..Len(s) : s[j] \notin C
    ELSE 0

Before(s, i) == SubSeq(s, 1, i - 1)
Range(s) == {s[i] : i \in 1..Len(s)}
After(s, i) == SubSeq(s, i + 1, Len(s))

(***************************************************************************)
(* _parse_postgres_dsn: urlparse of the DSN, URL-decoding of user and      *)
(* password.  A port that is not a number makes parsed.port raise where the *)
(* parse result is first logged, before any field is stored: the except    *)
(* block then returns the empty result.                                    *)
(***************************************************************************)
SchemePostgres == <<"p","o","s","t","g","r","e","s",":","/","/">>
SchemePostgresql == <<"p","o","s","t","g","r","e","s","q","l",":","/","/">>

\* urllib.parse.unquote, for the escapes of the URL delimiters
RECURSIVE Unquote(_)
Unquote(s) ==
    IF Len(s) = 0 THEN <<>>
    ELSE IF Len(s) >= 3 /\ SubSeq(s, 1, 3) = <<"%","4","0">>
         THEN <<"@">> \o Unquote(SubSeq(s, 4, Len(s)))
    ELSE IF Len(s) >= 3 /\ Lower(SubSeq(s, 1, 3)) = <<"%","3","a">>
         THEN <<":">> \o Unquote(SubSeq(s, 4, Len(s)))
    ELSE IF Len(s) >= 3 /\ Lower(SubSeq(s, 1, 3)) = <<"%","2","f">>
         THEN <<"/">> \o Unquote(SubSeq(s, 4, Len(s)))
    ELSE <<Head(s)>> \o Unquote(Tail(s))

\* int(port) and back to text: leading zeros go, 0 becomes the empty (falsy) value
RECURSIVE StripZeros(_)
StripZeros(s) == IF Len(s) > 0 /\ Head(s) = "0" THEN StripZeros(Tail(s)) ELSE s

\* the part of s before index i (all of s when i is 0), and the part after it
CutAt(s, i) == IF i = 0 THEN s ELSE Before(s, i)
FromAt(s, i) == IF i = 0 THEN <<>> ELSE After(s, i)

\* urlparse: the netloc ends at the first "/", "?" or "#"; the fragment and the
\* query are cut off the rest; userinfo is what precedes the last "@"
Netloc(rest) == CutAt(rest, FirstIndex(rest, {"/", "?", "#"}))
AfterNetloc(rest) == SubSeq(rest, Len(Netloc(rest)) + 1, Len(rest))
NoFragment(t) == CutAt(t, FirstIndex(t, {"#"}))
Userinfo(netloc) == Before(netloc, LastIndex(netloc, {"@"}))
Hostinfo(netloc) == After(netloc, LastIndex(netloc, {"@"}))
PortText(hostinfo) == FromAt(hostinfo, FirstIndex(hostinfo, {":"}))

UrlFields(netloc, t) ==
    [ path |-> CutAt(t, FirstIndex(t, {"?"})),
      query |-> FromAt(t, FirstIndex(t, {"?"})),
      hostname |-> Lower(CutAt(Hostinfo(netloc), FirstIndex(Hostinfo(netloc), {":"}))),
      port_raises |-> \E c \in Range(PortText(Hostinfo(netloc))) : c \notin DigitChars,
      port |-> StripZeros(PortText(Hostinfo(netloc))),
      username |-> CutAt(Userinfo(netloc), FirstIndex(Userinfo(netloc), {":"})),
      password |-> FromAt(Userinfo(netloc), FirstIndex(Userinfo(netloc), {":"})) ]

UrlParse(normalized_dsn) ==
    UrlFields(Netloc(SubSeq(normalized_dsn, Len(SchemePostgresql) + 1, Len(normalized_dsn))),
              NoFragment(AfterNetloc(SubSeq(normalized_dsn, Len(SchemePostgresql) + 1,
                                            Len(normalized_dsn)))))

\* parse_qs(query)["schema"][0]: the first non-blank schema=... pair
RECURSIVE QuerySchema(_)
QuerySchema(query) ==
    LET amp == FirstIndex(query, {"&"})
        pair == IF amp = 0 THEN query ELSE Before(query, amp)
        more == IF amp = 0 THEN <<>> ELSE After(query, amp)
        key == <<"s","c","h","e","m","a","=">>
    IN IF Len(query) = 0 THEN None
       ELSE IF StartsWith(pair, key) /\ Len(pair) > Len(key)
            THEN SubSeq(pair, Len(key) + 1, Len(pair))
       ELSE QuerySchema(more)

RECURSIVE LStripSlash(_)
LStripSlash(s) == IF Len(s) > 0 /\ Head(s) = "/" THEN LStripSlash(Tail(s)) ELSE s

\* result[key] = value when the value is there
PutIf(cond, d, k, v) == IF cond THEN Put(d, k, v) ELSE d

NormalizeDsn(dsn) ==
    IF StartsWith(dsn, SchemePostgresql) THEN dsn
    ELSE SchemePostgresql \o SubSeq(dsn, Len(SchemePostgres) + 1, Len(dsn))

\* the body of the try block, on the parsed URL
DsnFields(parsed) ==
    LET r1 == PutIf(Len(parsed.hostname) > 0, EmptyDict, "host", parsed.hostname)
        r2 == PutIf(Len(parsed.port) > 0, r1, "port", parsed.port)
        r3 == PutIf(Len(parsed.username) > 0, r2, "user", Unquote(parsed.username))
        r4 == PutIf(Len(parsed.password) > 0, r3, "password", Unquote(parsed.password))
        r5 == PutIf(Len(parsed.path) > 0 /\ parsed.path # <<"/">>, r4,
                    "database", LStripSlash(parsed.path))
        r6 == PutIf(QuerySchema(parsed.query) # None, r5,
                    "schema", QuerySchema(parsed.query))
    IN IF parsed.port_raises THEN EmptyDict ELSE r6

_parse_postgres_dsn(dsn) ==
    IF ~(StartsWith(dsn, SchemePostgres) \/ StartsWith(dsn, SchemePostgresql))
    THEN EmptyDict
    ELSE DsnFields(UrlParse(NormalizeDsn(dsn)))

(***************************************************************************)
(* _build_attach_sql: the ATTACH statement, kept as the record of the      *)
(* values that the code formats into the statement text.                   *)
(***************************************************************************)
S_localhost == <<"l","o","c","a","l","h","o","s","t">>
S_postgres == <<"p","o","s","t","g","r","e","s">>
S_public == <<"p","u","b","l","i","c">>
S_mysql == <<"m","y","s","q","l">>
S_root == <<"r","o","o","t">>
S_5432 == <<"5","4","3","2">>
S_3306 == <<"3","3","0","6">>

K_dsn == <<"d","s","n">>
K_host == <<"h","o","s","t">>
K_port == <<"p","o","r","t">>
K_database == <<"d","a","t","a","b","a","s","e">>
K_user == <<"u","s","e","r">>
K_password == <<"p","a","s","s","w","o","r","d">>
K_schema == <<"s","c","h","e","m","a">>
K_path == <<"p","a","t","h">>

\* the branch "if dsn:", on the parsed DSN
PostgresFromDsn(name, config, read_only, parsed) ==
    [ type |-> "POSTGRES", alias |-> name, read_only |-> read_only,
      host |-> Get(parsed, "host", S_localhost),
      port |-> Get(parsed, "port", S_5432),
      dbname |-> Get(parsed, "database", S_postgres),
      user |-> Get(parsed, "user", S_postgres),
      password |-> Get(parsed, "password", <<>>),
      schema |-> Get(config, K_schema, Get(parsed, "schema", S_public)) ]

_build_postgres_attach(name, config, read_only) ==
    IF Len(Get(config, K_dsn, <<>>)) > 0
    THEN PostgresFromDsn(name, config, read_only,
                         _parse_postgres_dsn(Get(config, K_dsn, <<>>)))
    ELSE [ type |-> "POSTGRES", alias |-> name, read_only |-> read_only,
           host |-> Get(config, K_host, S_localhost),
           port |-> Get(config, K_port, S_5432),
           dbname |-> Get(config, K_database, S_postgres),
           user |-> Get(config, K_user, S_postgres),
           password |-> Get(config, K_password, <<>>),
           schema |-> Get(config, K_schema, S_public) ]

_build_sqlite_attach(name, config, read_only) ==
    [ type |-> "SQLITE", alias |-> name, read_only |-> read_only,
      path |-> Get(config, K_path, <<>>) ]

_build_mysql_attach(name, config, read_only) ==
    [ type |-> "MYSQL", alias |-> name, read_only |-> read_only,
      host |-> Get(config, K_host, S_localhost),
      port |-> Get(config, K_port, S_3306),
      database |-> Get(config, K_database, S_mysql),
      user |-> Get(config, K_user, S_root),
      password |-> Get(config, K_password, <<>>) ]

_build_duckdb_attach(name, config, read_only) ==
    [ type |-> "DUCKDB", alias |-> name, read_only |-> read_only,
      path |-> Get(config, K_path, <<>>) ]

_build_attach_sql(name, source_type, config, read_only) ==
    CASE source_type = "postgres" -> _build_postgres_attach(name, config, read_only)
      [] source_type = "sqlite" -> _build_sqlite_attach(name, config, read_only)
      [] source_type = "mysql" -> _build_mysql_attach(name, config, read_only)
      [] source_type = "duckdb" -> _build_duckdb_attach(name, config, read_only)


(***************************************************************************)
(* Results of a call.                                                      *)
(***************************************************************************)
PROJECT == <<"p","r","o","j">>
OK == <<"ok">>
NameMessage == <<"Name must be alphanumeric with underscores, starting with letter">>

Raise(type, arg, message) == [type |-> type, arg |-> arg, message |-> message]
\* a statement run on the engine: result is OK or the text of the engine error
Stmt(stmt, sql, result) == [stmt |-> stmt, sql |-> sql, result |-> result]
E_detach == <<"Binder Error: detach failed">>
E_strategy == <<"Catalog Error: listing failed">>

\* before: the rows (and the cache table) the call is about, as they were when
\* the call began
Call(op, name, arg, before, log, ret, exc) ==
    [op |-> op, name |-> name, arg |-> arg, before |-> before,
     log |-> log, ret |-> ret, exc |-> exc]

(***************************************************************************)
(* Reads of _sources.attached: get_source, list_sources.  An optional      *)
(* record is the set of at most one record.                                *)
(***************************************************************************)
TableCount(name) == Cardinality({c \in cached_tables : c.source_name = name})

_row_to_attached_source(row) ==
    [ id |-> row.id, name |-> row.name, source_type |-> row.source_type,
      connection_config |-> JsonLoads(row.connection_config),
      attached_at |-> row.attached_at, status |-> row.status,
      error_message |-> row.error_message, project_id |-> row.project_id,
      description |-> row.description, table_count |-> TableCount(row.name) ]

\* the lookup without the status filter
get_source_any(name) ==
    { _row_to_attached_source(a) : a \in {r \in attached : r.name = name} }

get_source(name) ==
    { _row_to_attached_source(a) : a \in {r \in attached : r.name = name /\ r.status # "detached"} }

\* the returned list as a set: the ORDER BY of the query is left out
list_sources ==
    { _row_to_attached_source(a) : a \in {r \in attached : r.status # "detached"} }

(***************************************************************************)
(* attach_source                                                           *)
(***************************************************************************)
\* a plain INSERT without the conflict clause on a table without the constraint
UpsertAttached_insert(rows, new) == rows \cup {new}

\* INSERT ... ON CONFLICT (name) DO UPDATE of the success path
UpsertAttached(rows, new) ==
    IF \E r \in rows : r.name = new.name
    THEN { IF r.name = new.name
           THEN [r EXCEPT !.source_type = new.source_type,
                          !.connection_config = new.connection_config,
                          !.attached_at = new.attached_at,
                          !.status = "attached",
                          !.error_message = None,
                          !.project_id = new.project_id,
                          !.description = IF new.description # None
                                          THEN new.description ELSE r.description,
                          !.updated_at = new.updated_at]
           ELSE r : r \in rows }
    ELSE rows \cup {new}

\* ON CONFLICT (name) DO NOTHING in the except block
UpsertAttachError_nothing(rows, new) ==
    IF \E r \in rows : r.name = new.name THEN rows ELSE rows \cup {new}

\* the except block writing the whole row of the failed call over the old one
UpsertAttachError_overwrite(rows, new) == {r \in rows : r.name # new.name} \cup {new}

\* INSERT ... ON CONFLICT (name) DO UPDATE of the except block
UpsertAttachError(rows, new) ==
    IF \E r \in rows : r.name = new.name
    THEN { IF r.name = new.name
           THEN [r EXCEPT !.status = "error",
                          !.error_message = new.error_message,
                          !.updated_at = new.updated_at]
           ELSE r : r \in rows }
    ELSE rows \cup {new}

AttachSource(name, source_type, config, description, attach_result) ==
    LET attach_sql == _build_attach_sql(name, source_type, config, TRUE)
        source_id == nextId
        now == clock
        sanitized_config == _sanitize_config(config)
        arg == [source_type |-> source_type, config |-> config,
                description |-> description]
        before == [ rows |-> {r \in attached : r.name = name},
                    vault |-> {vault[n] : n \in DOMAIN vault \cap {name}} ]
        row(status, error_message) ==
            [ id |-> source_id, name |-> name, source_type |-> source_type,
              connection_config |-> JsonDumps(sanitized_config),
              attached_at |-> now, status |-> status,
              error_message |-> error_message, project_id |-> PROJECT,
              description |-> description, updated_at |-> {now} ]
    IN
    /\ IF ~MatchesIdentifier(name)
       THEN /\ last' = Call("attach_source", name, arg, before, <<>>, None,
                            Raise("AttachError", name, NameMessage))
            /\ UNCHANGED <<attached, vault, nextId>>
       ELSE IF attach_result = OK
       THEN /\ vault' = Put(vault, name, config)
            /\ attached' = UpsertAttached(attached, row("attached", None))
            /\ nextId' = nextId + 1
            /\ last' = Call("attach_source", name, arg, before,
                            << Stmt("ATTACH", attach_sql, OK),
                               Stmt("VAULT_PUT", attach_sql, OK),
                               Stmt("UPSERT_ATTACHED", attach_sql, OK) >>,
                            [ id |-> source_id, name |-> name,
                              source_type |-> source_type,
                              connection_config |-> sanitized_config,
                              attached_at |-> now, status |-> "attached",
                              error_message |-> None, project_id |-> PROJECT,
                              description |-> description, table_count |-> 0 ],
                            NoExc)
       ELSE /\ attached' = UpsertAttachError(attached, row("error", attach_result))
            /\ nextId' = nextId + 1
            /\ last' = Call("attach_source", name, arg, before,
                            << Stmt("ATTACH", attach_sql, attach_result),
                               Stmt("UPSERT_ERROR", attach_sql, OK) >>,
                            None, Raise("AttachError", name, attach_result))
            /\ UNCHANGED vault
    /\ UNCHANGED <<foreign_vars, cached_tables, cache_schema, folders, disk, clock>>

(***************************************************************************)
(* detach_source                                                           *)
(***************************************************************************)
\* the status update placed inside the try block, after DETACH
DetachSource_in_try(name, detach_ok) ==
    LET exists == \E r \in attached : r.name = name /\ r.status # "detached"
        before == [ rows |-> {r \in attached : r.name = name},
                    vault |-> {vault[n] : n \in DOMAIN vault \cap {name}} ]
    IN
    /\ vault' = Pop(vault, name)
    /\ attached' = IF exists /\ detach_ok
                   THEN { IF r.name = name THEN [r EXCEPT !.status = "detached"]
                          ELSE r : r \in attached }
                   ELSE attached
    /\ last' = Call("detach_source", name, None, before,
                    << Stmt("VAULT_POP", None, OK) >>
                      \o (IF exists
                          THEN << Stmt("DETACH", None, IF detach_ok THEN OK ELSE E_detach) >>
                          ELSE <<>>),
                    exists, NoExc)
    /\ UNCHANGED <<foreign_vars, cached_tables, cache_schema, folders, disk, nextId, clock>>

\* detach_source without the removal of the entry of _FULL_CONFIGS
DetachSource_keep_vault(name, detach_ok) ==
    LET exists == \E r \in attached : r.name = name /\ r.status # "detached"
        before == [ rows |-> {r \in attached : r.name = name},
                    vault |-> {vault[n] : n \in DOMAIN vault \cap {name}} ]
    IN
    /\ attached' = IF exists
                   THEN { IF r.name = name THEN [r EXCEPT !.status = "detached"]
                          ELSE r : r \in attached }
                   ELSE attached
    /\ last' = Call("detach_source", name, None, before,
                    IF exists
                    THEN << Stmt("DETACH", None, IF detach_ok THEN OK ELSE E_detach),
                            Stmt("UPDATE_DETACHED", None, OK) >>
                    ELSE <<>>,
                    exists, NoExc)
    /\ UNCHANGED <<foreign_vars, vault, cached_tables, cache_schema, folders, disk, nextId, clock>>

DetachSource(name, detach_ok) ==
    LET exists == \E r \in attached : r.name = name /\ r.status # "detached"
        before == [ rows |-> {r \in attached : r.name = name},
                    vault |-> {vault[n] : n \in DOMAIN vault \cap {name}} ]
    IN
    /\ vault' = Pop(vault, name)
    /\ IF ~exists
       THEN /\ last' = Call("detach_source", name, None, before,
                            << Stmt("VAULT_POP", None, OK) >>, FALSE, NoExc)
            /\ UNCHANGED attached
       ELSE /\ attached' = { IF r.name = name THEN [r EXCEPT !.status = "detached"]
                             ELSE r : r \in attached }
            /\ last' = Call("detach_source", name, None, before,
                            << Stmt("VAULT_POP", None, OK),
                               Stmt("DETACH", None, IF detach_ok THEN OK ELSE E_detach),
                               Stmt("UPDATE_DETACHED", None, OK) >>, TRUE, NoExc)
    /\ UNCHANGED <<foreign_vars, cached_tables, cache_schema, folders, disk, nextId, clock>>

(***************************************************************************)
(* update_source                                                           *)
(***************************************************************************)
UpdateSource(name, description) ==
    LET now == clock
        updated == IF description = None THEN attached
                   ELSE { IF r.name = name
                          THEN [r EXCEPT !.description = description,
                                         !.updated_at = {now}]
                          ELSE r : r \in attached }
    IN
    /\ attached' = updated
    /\ last' = Call("update_source", name, description,
                    [ rows |-> {r \in attached : r.name = name},
                      vault |-> {vault[n] : n \in DOMAIN vault \cap {name}} ],
                    IF description = None THEN <<>>
                    ELSE << Stmt("UPDATE_DESCRIPTION", None, OK) >>,
                    { _row_to_attached_source(a) :
                        a \in {r \in updated : r.name = name /\ r.status # "detached"} },
                    NoExc)
    /\ UNCHANGED <<foreign_vars, vault, cached_tables, cache_schema, folders, disk, nextId, clock>>

(***************************************************************************)
(* Time passes between calls.                                              *)
(***************************************************************************)
Tick ==
    /\ clock' = clock + 1
    /\ last' = Call("tick", None, None, None, <<>>, None, NoExc)
    /\ UNCHANGED <<foreign_vars, attached, vault, cached_tables, cache_schema, folders, disk, nextId>>


(***************************************************************************)
(* The external databases.  Every reachable source exposes the same small  *)
(* catalog; a filter is a WHERE condition over the rows of a table, and    *)
(* BadFilter is a condition the engine rejects.                            *)
(***************************************************************************)
T_orders == <<"o","r","d">>
T_users == <<"u","s","r">>
RemoteCatalog == { [schema_name |-> <<"m">>, table_name |-> T_orders],
                   [schema_name |-> <<"m">>, table_name |-> T_users] }
\* a view of the remote database: duckdb_tables() lists tables only, SHOW TABLES
\* and information_schema.tables list the views as well
T_view == <<"v","w">>
RemoteViews == { [schema_name |-> <<"m">>, table_name |-> T_view] }
RemoteRows(table) == IF table = T_orders THEN {1, 2, 3} ELSE {7}

F_low == <<"x < 3">>
F_high == <<"x > 1">>
BadFilter == <<"x <">>
FilterRows(filter_sql, rows) ==
    CASE filter_sql = F_low -> {x \in rows : x < 3}
      [] filter_sql = F_high -> {x \in rows : x > 1}
      [] OTHER -> rows

E_attach == <<"IO Error: cannot open">>
E_auth == <<"Connection Error: authentication failed">>
E_drop == <<"Catalog Error: drop failed">>
E_create == <<"Binder Error: create failed">>
E_count == <<"IO Error: count failed">>

(***************************************************************************)
(* _connect_with_sources([source_name]): the rows selected for re-attach,  *)
(* the config each ATTACH is built from, and whether the source is         *)
(* attached on the connection afterwards.                                  *)
(***************************************************************************)
\* a re-attach that always takes the persisted config
ReattachConfig_persisted(row) == JsonLoads(row.connection_config)

\* the vault's entry for the name, else the config_json of the row
ReattachConfig(row) ==
    IF row.name \in DOMAIN vault THEN vault[row.name]
    ELSE JsonLoads(row.connection_config)

_connect_with_sources(source_name, reattach_result) ==
    LET rows == {r \in attached : r.name = source_name /\ r.status = "attached"}
        log == IF rows = {} THEN <<>>
               ELSE LET r == CHOOSE r \in rows : TRUE
                    IN << Stmt("REATTACH",
                               _build_attach_sql(r.name, r.source_type, ReattachConfig(r), TRUE),
                               reattach_result) >>
    IN [ log |-> log, live |-> rows # {} /\ reattach_result = OK ]

(***************************************************************************)
(* cache_table                                                             *)
(***************************************************************************)
Replace(s, a, b) == [i \in 1..Len(s) |-> IF s[i] = a THEN b ELSE s[i]]

\* a plain INSERT without the conflict clause on a table without the constraint
UpsertCached_insert(rows, new) == rows \cup {new}

\* INSERT ... ON CONFLICT (local_table) DO UPDATE
UpsertCached(rows, new) ==
    IF \E r \in rows : r.local_table = new.local_table
    THEN { IF r.local_table = new.local_table
           THEN [r EXCEPT !.source_name = new.source_name,
                          !.source_table = new.source_table,
                          !.cached_at = new.cached_at,
                          !.row_count = new.row_count,
                          !.expires_at = new.expires_at,
                          !.filter_sql = new.filter_sql]
           ELSE r : r \in rows }
    ELSE rows \cup {new}

\* DROP TABLE IF EXISTS left out of the try block
DropTable_skip(schema, local_table) == schema

\* The catalog of the engine: DuckDB resolves identifiers, quoted ones too,
\* without regard to case, while it keeps the case a table was created with.
SameTable(a, b) == Lower(a) = Lower(b)
WithoutTable(schema, local_table) ==
    [l \in {k \in DOMAIN schema : ~SameTable(k, local_table)} |-> schema[l]]

\* DROP TABLE IF EXISTS cache.<local_table>
DropTable(schema, local_table) == WithoutTable(schema, local_table)

\* CREATE TABLE cache.<local_table> AS SELECT ...
CreateTableAs(schema, local_table, data) == Put(schema, local_table, data)

\* except duckdb.Error raising a CacheError without the text of the engine error
CacheFailure_generic(source_table, e) ==
    Raise("CacheError", source_table, <<"caching failed">>)

\* except duckdb.Error as e: raise CacheError(source_table, str(e))
CacheFailure(source_table, e) == Raise("CacheError", source_table, e)

\* What a cache_table call does to the state and what it returns.  fault names
\* the statement of the try block on which the engine raises, if any.
cache_table(source_name, source_table, local_table_arg, filter_sql, expires_hours, reattach_result, fault) ==
    LET local_table ==
            IF local_table_arg = None \/ Len(local_table_arg) = 0
            THEN source_name \o <<"_">> \o Replace(source_table, ".", "_")
            ELSE local_table_arg
        has_filter == filter_sql # None /\ Len(filter_sql) > 0
        cache_id == nextId
        now == clock
        expires_at == IF expires_hours # Null /\ expires_hours # {0}
                      THEN {now + h : h \in expires_hours} ELSE Null
        con == _connect_with_sources(source_name, reattach_result)
        drop_ok == fault # "drop"
        create_ok == /\ fault # "create"
                     /\ con.live
                     /\ \E t \in RemoteCatalog : t.table_name = source_table
                     /\ ~(has_filter /\ filter_sql = BadFilter)
        count_ok == fault # "count"
        data == IF has_filter THEN FilterRows(filter_sql, RemoteRows(source_table))
                ELSE RemoteRows(source_table)
        row_count == Cardinality(data)
        dropped == DropTable(cache_schema, local_table)
        created == CreateTableAs(dropped, local_table, data)
        new == [ id |-> cache_id, source_name |-> source_name,
                 source_table |-> source_table, local_table |-> local_table,
                 cached_at |-> now, row_count |-> {row_count},
                 expires_at |-> expires_at, filter_sql |-> filter_sql ]
        before == [ rows |-> {c \in cached_tables : c.local_table = local_table},
                    tables |-> {cache_schema[l] : l \in DOMAIN cache_schema \cap {local_table}} ]
        Result(ct, cs, id, log, ret, exc) ==
            [ cached_tables |-> ct, cache_schema |-> cs, nextId |-> id,
              local_table |-> local_table, before |-> before,
              log |-> log, ret |-> ret, exc |-> exc ]
    IN
    IF get_source(source_name) = {}
    THEN Result(cached_tables, cache_schema, nextId, <<>>, None,
                Raise("SourceNotFoundError", source_name, None))
    ELSE IF ~MatchesIdentifier(local_table)
    THEN Result(cached_tables, cache_schema, nextId, <<>>, None,
                Raise("CacheError", source_table, <<"Invalid local table name">>))
    ELSE IF ~drop_ok
    THEN Result(cached_tables, cache_schema, nextId + 1,
                con.log \o << Stmt("DROP", local_table, E_drop) >>,
                None, CacheFailure(source_table, E_drop))
    ELSE IF ~create_ok
    THEN Result(cached_tables, dropped, nextId + 1,
                con.log \o << Stmt("DROP", local_table, OK),
                              Stmt("CREATE", local_table, E_create) >>,
                None, CacheFailure(source_table, E_create))
    ELSE IF ~count_ok
    THEN Result(cached_tables, created, nextId + 1,
                con.log \o << Stmt("DROP", local_table, OK),
                              Stmt("CREATE", local_table, OK),
                              Stmt("COUNT", local_table, E_count) >>,
                None, CacheFailure(source_table, E_count))
    ELSE Result(UpsertCached(cached_tables, new), created, nextId + 1,
                con.log \o << Stmt("DROP", local_table, OK),
                              Stmt("CREATE", local_table, OK),
                              Stmt("COUNT", local_table, OK),
                              Stmt("UPSERT_CACHE", local_table, OK) >>,
                new, NoExc)

CacheTable(source_name, source_table, local_table_arg, filter_sql, expires_hours, reattach_result, fault) ==
    LET r == cache_table(source_name, source_table, local_table_arg, filter_sql,
                         expires_hours, reattach_result, fault)
    IN
    /\ cached_tables' = r.cached_tables
    /\ cache_schema' = r.cache_schema
    /\ nextId' = r.nextId
    /\ last' = Call("cache_table", source_name,
                    [ source_table |-> source_table, local_table |-> r.local_table,
                      filter_sql |-> filter_sql, expires_hours |-> expires_hours ],
                    r.before, r.log, r.ret, r.exc)
    /\ UNCHANGED <<foreign_vars, attached, vault, folders, disk, clock>>

(***************************************************************************)
(* refresh_cache                                                           *)
(***************************************************************************)
\* the SELECT taking expires_at itself for the interval
ttl_interval_absolute(row) == row.expires_at

\* SELECT ... expires_at - cached_at as ttl_interval: NULL when expires_at is
\* NULL.  The clock counts hours, so an interval is a number of hours.
ttl_interval(row) == {e - row.cached_at : e \in row.expires_at}

\* timedelta.total_seconds() of an interval of whole hours
total_seconds(hours) == hours * 3600

\* int(x / y): the quotient truncated toward zero
IntTrunc(x, y) == IF x >= 0 THEN x \div y ELSE -((-x) \div y)

\* expires_hours = None; if ttl_interval: expires_hours = int(total_seconds / 3600)
\* (a NULL and a zero interval are both falsy)
refresh_expires_hours(ttl) ==
    IF ttl # Null /\ ttl # {0}
    THEN {IntTrunc(total_seconds(h), 3600) : h \in ttl} ELSE Null

RefreshCache(local_table, reattach_result, fault) ==
    LET found == {c \in cached_tables : c.local_table = local_table}
        row == CHOOSE c \in found : TRUE
        expires_hours == refresh_expires_hours(ttl_interval(row))
        r == cache_table(row.source_name, row.source_table, local_table,
                         row.filter_sql, expires_hours, reattach_result, fault)
    IN
    /\ IF found = {}
       THEN /\ last' = Call("refresh_cache", None,
                            [ source_table |-> None, local_table |-> local_table,
                              filter_sql |-> None, expires_hours |-> Null ],
                            [ rows |-> {}, tables |-> {} ], <<>>, None,
                            Raise("CacheError", local_table, <<"Cached table not found">>))
            /\ UNCHANGED <<cached_tables, cache_schema, nextId>>
       ELSE /\ cached_tables' = r.cached_tables
            /\ cache_schema' = r.cache_schema
            /\ nextId' = r.nextId
            /\ last' = Call("refresh_cache", row.source_name,
                            [ source_table |-> row.source_table,
                              local_table |-> local_table,
                              filter_sql |-> row.filter_sql,
                              expires_hours |-> expires_hours ],
                            r.before, r.log, r.ret, r.exc)
    /\ UNCHANGED <<foreign_vars, attached, vault, folders, disk, clock>>

(***************************************************************************)
(* drop_cache, cleanup_expired_caches                                      *)
(***************************************************************************)
\* a drop_cache that gives up when DROP TABLE raises
drop_cache_stop_on_error(state, local_table, drop_failing) ==
    IF \/ ~\E c \in state.cached_tables : c.local_table = local_table
       \/ local_table \in drop_failing
    THEN [ cached_tables |-> state.cached_tables, cache_schema |-> state.cache_schema,
           log |-> <<>>, ret |-> FALSE ]
    ELSE [ cached_tables |-> {c \in state.cached_tables : c.local_table # local_table},
           cache_schema |-> WithoutTable(state.cache_schema, local_table),
           log |-> << Stmt("DROP", local_table, OK),
                      Stmt("DELETE_CACHE", local_table, OK) >>,
           ret |-> TRUE ]

\* drop_failing: the local tables on which the engine raises at DROP TABLE
drop_cache(state, local_table, drop_failing) ==
    IF ~\E c \in state.cached_tables : c.local_table = local_table
    THEN [ cached_tables |-> state.cached_tables, cache_schema |-> state.cache_schema,
           log |-> <<>>, ret |-> FALSE ]
    ELSE [ cached_tables |-> {c \in state.cached_tables : c.local_table # local_table},
           cache_schema |-> IF local_table \in drop_failing THEN state.cache_schema
                            ELSE WithoutTable(state.cache_schema, local_table),
           log |-> << Stmt("DROP", local_table,
                           IF local_table \in drop_failing THEN E_drop ELSE OK),
                      Stmt("DELETE_CACHE", local_table, OK) >>,
           ret |-> TRUE ]

DropCache(local_table, drop_ok) ==
    LET r == drop_cache([cached_tables |-> cached_tables, cache_schema |-> cache_schema],
                        local_table, IF drop_ok THEN {} ELSE {local_table})
    IN
    /\ cached_tables' = r.cached_tables
    /\ cache_schema' = r.cache_schema
    /\ last' = Call("drop_cache", None,
                    [ source_table |-> None, local_table |-> local_table,
                      filter_sql |-> None, expires_hours |-> Null ],
                    [ rows |-> {c \in cached_tables : c.local_table = local_table},
                      tables |-> {cache_schema[l] : l \in DOMAIN cache_schema \cap {local_table}} ],
                    r.log, r.ret, NoExc)
    /\ UNCHANGED <<foreign_vars, attached, vault, folders, disk, nextId, clock>>

\* the for loop over the expired rows, in the order the query returned them
RECURSIVE CleanupLoop(_, _, _, _)
CleanupLoop(state, expired, drop_failing, count) ==
    IF expired = {}
    THEN [ cached_tables |-> state.cached_tables, cache_schema |-> state.cache_schema,
           log |-> state.log, ret |-> count ]
    ELSE LET local_table == CHOOSE l \in expired : TRUE
             r == drop_cache(state, local_table, drop_failing)
         IN CleanupLoop([ cached_tables |-> r.cached_tables,
                          cache_schema |-> r.cache_schema,
                          log |-> state.log \o r.log ],
                        expired \ {local_table}, drop_failing,
                        IF r.ret THEN count + 1 ELSE count)

\* the query taking the rows that expire at the time of the call too
expired_inclusive(rows, now) ==
    { c.local_table : c \in
        { c \in rows : c.expires_at # Null /\ \A e \in c.expires_at : e <= now } }

\* SELECT local_table FROM _sources.cached_tables
\* WHERE expires_at IS NOT NULL AND expires_at < ?
expired(rows, now) ==
    { c.local_table : c \in
        { c \in rows : c.expires_at # Null /\ \A e \in c.expires_at : e < now } }

\* SELECT ... WHERE local_table = ? ; fetchone(): the CachedTable of the row, or
\* None (the empty set)
get_cached_table(rows, local_table) == {c \in rows : c.local_table = local_table}

CleanupExpiredCaches(drop_failing) ==
    LET now == clock
        expired_now == expired(cached_tables, now)
        r == CleanupLoop([ cached_tables |-> cached_tables,
                           cache_schema |-> cache_schema, log |-> <<>> ],
                         expired_now, drop_failing, 0)
    IN
    /\ drop_failing \subseteq expired_now
    /\ cached_tables' = r.cached_tables
    /\ cache_schema' = r.cache_schema
    /\ last' = Call("cleanup_expired_caches", None, [now |-> now, expired |-> expired_now],
                    [ rows |-> cached_tables, tables |-> cache_schema ],
                    r.log, r.ret, NoExc)
    /\ UNCHANGED <<foreign_vars, attached, vault, folders, disk, nextId, clock>>


(***************************************************************************)
(* list_source_tables, estimate_table_size                                 *)
(***************************************************************************)
S_public_schema == <<"p","u","b","l","i","c">>

\* cached_map = {row[0]: row[1] for row in cached}: with two cache rows for one
\* source table the entry kept is the one the query happened to return last
CachedMaps(source_name) ==
    LET rows == {c \in cached_tables : c.source_name = source_name}
        keys == {c.source_table : c \in rows}
    IN { m \in [keys -> {c.local_table : c \in rows}] :
           \A k \in keys : \E c \in rows : c.source_table = k /\ c.local_table = m[k] }

FullName(schema_name, table_name) ==
    IF Len(schema_name) > 0 THEN schema_name \o <<".">> \o table_name ELSE table_name

\* what each of the three statements returns when it returns rows
rows_duckdb_tables == RemoteCatalog
\* rows = [("public", row[0]) for row in result]
rows_show_tables ==
    { [schema_name |-> S_public_schema, table_name |-> t.table_name] :
        t \in RemoteCatalog \cup RemoteViews }
rows_information_schema == RemoteCatalog \cup RemoteViews

\* a discovery that lets a later statement override an earlier one
DiscoveredRows_last_wins(m1, m2, m3) ==
    IF m3 = "rows" THEN rows_information_schema
    ELSE IF m2 = "rows" THEN rows_show_tables
    ELSE IF m1 = "rows" THEN rows_duckdb_tables
    ELSE {}

\* m1, m2, m3: what duckdb_tables(), SHOW TABLES and information_schema do on
\* this connection: "error", "empty" or "rows"
DiscoveredRows(m1, m2, m3) ==
    LET rows1 == IF m1 = "rows" THEN rows_duckdb_tables ELSE {}
        rows2 == IF rows1 # {} THEN rows1
                 ELSE IF m2 = "rows" THEN rows_show_tables ELSE {}
        rows3 == IF rows2 # {} THEN rows2
                 ELSE IF m3 = "rows" THEN rows_information_schema ELSE {}
    IN rows3

\* a test that looks the schema-qualified name up only
is_cached_full_name(cached_map, t) ==
    FullName(t.schema_name, t.table_name) \in DOMAIN cached_map

\* is_cached = full_name in cached_map or table_name in cached_map
is_cached(cached_map, t) ==
    \/ FullName(t.schema_name, t.table_name) \in DOMAIN cached_map
    \/ t.table_name \in DOMAIN cached_map

StrategyResult(m) == IF m = "error" THEN E_strategy ELSE OK

ListSourceTables(source_name, reattach_result, m1, m2, m3, cached_map) ==
    LET con == _connect_with_sources(source_name, reattach_result)
        rows == DiscoveredRows(m1, m2, m3)
        tables == { [ source_name |-> source_name, schema_name |-> t.schema_name,
                      table_name |-> t.table_name,
                      mode |-> IF is_cached(cached_map, t) THEN "cached" ELSE "live",
                      local_table |->
                          Get(cached_map, FullName(t.schema_name, t.table_name),
                              Get(cached_map, t.table_name, None)) ] : t \in rows }
    IN
    /\ cached_map \in CachedMaps(source_name)
    /\ IF get_source(source_name) = {}
       THEN /\ m1 = "error" /\ m2 = "error" /\ m3 = "error"
            /\ last' = Call("list_source_tables", source_name, None, None, <<>>, None,
                            Raise("SourceNotFoundError", source_name, None))
       ELSE /\ con.live \/ "rows" \notin {m1, m2, m3}
            /\ last' = Call("list_source_tables", source_name, <<m1, m2, m3>>, None,
                            con.log \o << Stmt("DUCKDB_TABLES", None, StrategyResult(m1)) >>
                             \o (IF m1 = "rows" THEN <<>>
                                 ELSE << Stmt("SHOW_TABLES", None, StrategyResult(m2)) >>)
                             \o (IF m1 = "rows" \/ m2 = "rows" THEN <<>>
                                 ELSE << Stmt("INFORMATION_SCHEMA", None, StrategyResult(m3)) >>),
                            tables, NoExc)
    /\ UNCHANGED <<foreign_vars, attached, vault, cached_tables, cache_schema, folders, disk,
                   nextId, clock>>

_get_cache_suggestion(row_count) ==
    IF row_count < 1000 THEN "small"
    ELSE IF row_count < 10000 THEN "moderate"
    ELSE IF row_count < 100000 THEN "cache"
    ELSE IF row_count < 1000000 THEN "cache with filter"
    ELSE "filter then cache"

EstimateTableSize(source_name, table_name, reattach_result, count_ok) ==
    LET con == _connect_with_sources(source_name, reattach_result)
        ok == /\ count_ok
              /\ con.live
              /\ \E t \in RemoteCatalog : t.table_name = table_name
        row_count == Cardinality(RemoteRows(table_name))
    IN
    /\ IF get_source(source_name) = {}
       THEN last' = Call("estimate_table_size", source_name, table_name, None, <<>>, None,
                         Raise("SourceNotFoundError", source_name, None))
       ELSE IF ok
       THEN last' = Call("estimate_table_size", source_name, table_name, None,
                         con.log \o << Stmt("COUNT_SOURCE", table_name, OK) >>,
                         [ estimated_rows |-> {row_count},
                           recommend_cache |-> row_count > 10000,
                           recommend_filter |-> {row_count > 100000},
                           suggestion |-> _get_cache_suggestion(row_count),
                           error |-> None ],
                         NoExc)
       ELSE last' = Call("estimate_table_size", source_name, table_name, None,
                         con.log \o << Stmt("COUNT_SOURCE", table_name, E_count) >>,
                         [ estimated_rows |-> Null,
                           recommend_cache |-> TRUE,
                           recommend_filter |-> Null,
                           suggestion |-> "unable to estimate",
                           error |-> E_count ],
                         NoExc)
    /\ UNCHANGED <<foreign_vars, attached, vault, cached_tables, cache_schema, folders, disk,
                   nextId, clock>>


(***************************************************************************)
(* Folder sources.  disk maps a directory path to its entries; an entry is *)
(* a record [name, is_file, size_bytes, mtime].  A path outside DOMAIN     *)
(* disk does not exist.                                                    *)
(***************************************************************************)
\* fnmatch(name, pattern) for patterns of literal characters, "?" and "*"
RECURSIVE fnmatch(_, _)
fnmatch(name, pattern) ==
    IF Len(pattern) = 0 THEN Len(name) = 0
    ELSE IF Head(pattern) = "*"
         THEN fnmatch(name, Tail(pattern))
              \/ (Len(name) > 0 /\ fnmatch(Tail(name), pattern))
    ELSE /\ Len(name) > 0
         /\ (Head(pattern) = "?" \/ Head(pattern) = Head(name))
         /\ fnmatch(Tail(name), Tail(pattern))

\* Path(name).suffix.lower().lstrip(".")
Extension(name) ==
    LET dot == LastIndex(name, {"."})
    IN IF dot <= 1 \/ dot = Len(name) THEN <<>> ELSE Lower(After(name, dot))

X_csv == <<"c","s","v">>
X_parquet == <<"p","a","r","q","u","e","t">>

AllowedExts(allowed_types) ==
    IF allowed_types = "csv" THEN {X_csv}
    ELSE IF allowed_types = "parquet" THEN {X_parquet}
    ELSE {X_csv, X_parquet}

\* datetime.fromtimestamp(st_mtime).isoformat(): the text of the timestamp
IsoFormat(t) == [iso |-> t]

FolderFile(dir, e) ==
    [ path |-> dir \o <<"/">> \o e.name, name |-> e.name,
      file_type |-> Extension(e.name), size_bytes |-> e.size_bytes,
      modified_at |-> e.mtime ]

\* the files of the directory that pass the filters of list_folder_files
Listable(row) ==
    IF row.path \notin DOMAIN disk THEN {}
    ELSE { FolderFile(row.path, e) : e \in
             { e \in disk[row.path] :
                 /\ e.is_file
                 /\ Extension(e.name) \in AllowedExts(row.allowed_types)
                 /\ (row.pattern = None \/ Len(row.pattern) = 0
                       \/ fnmatch(e.name, row.pattern)) } }

\* What list_folder_files returns: items are collected in the order iterdir()
\* yields them until limit is reached, so with more files than limit the call
\* returns the limit files that iterdir() happened to yield first (picked).
list_folder_files(folder_id, limit, picked) ==
    LET found == {f \in folders : f.id = folder_id /\ f.project_id = PROJECT}
        row == CHOOSE f \in found : TRUE
    IN IF limit < 1
       THEN [ ret |-> {}, exc |-> Raise("ValueError", None, <<"limit must be >= 1">>) ]
       ELSE IF found = {}
       THEN [ ret |-> {}, exc |-> Raise("SourceNotFoundError", folder_id, None) ]
       ELSE IF Cardinality(Listable(row)) <= limit
       THEN [ ret |-> Listable(row), exc |-> NoExc ]
       ELSE [ ret |-> picked, exc |-> NoExc ]

Picks(folder_id, limit) ==
    LET found == {f \in folders : f.id = folder_id /\ f.project_id = PROJECT}
        row == CHOOSE f \in found : TRUE
    IN IF limit < 1 \/ found = {} \/ Cardinality(Listable(row)) <= limit
       THEN {{}}
       ELSE {S \in SUBSET Listable(row) : Cardinality(S) = limit}

CreateFolderSource(name, path, allowed_types, pattern) ==
    LET now == clock
        folder_id == nextId
        new == [ id |-> folder_id, name |-> name, path |-> path,
                 allowed_types |-> allowed_types, pattern |-> pattern,
                 created_at |-> now, updated_at |-> {now}, project_id |-> PROJECT,
                 last_scanned_at |-> Null, last_scan_snapshot |-> Null ]
        upserted ==
            IF \E f \in folders : f.name = name
            THEN { IF f.name = name
                   THEN [f EXCEPT !.path = path, !.allowed_types = allowed_types,
                                  !.pattern = pattern, !.updated_at = {now},
                                  !.project_id = PROJECT]
                   ELSE f : f \in folders }
            ELSE folders \cup {new}
        row == CHOOSE f \in upserted : f.name = name /\ f.project_id = PROJECT
    IN
    /\ IF allowed_types \notin {"csv", "parquet", "both"}
       THEN /\ last' = Call("create_folder_source", name, path, folders, <<>>, None,
                            Raise("ValueError", None, <<"allowed_types must be one of: csv, parquet, both">>))
            /\ UNCHANGED <<folders, nextId>>
       ELSE IF path \notin DOMAIN disk
       THEN /\ last' = Call("create_folder_source", name, path, folders, <<>>, None,
                            Raise("ValueError", None, <<"Folder not found">>))
            /\ UNCHANGED <<folders, nextId>>
       ELSE /\ folders' = upserted
            /\ nextId' = nextId + 1
            /\ last' = Call("create_folder_source", name, path, folders,
                            << Stmt("UPSERT_FOLDER", None, OK) >>,
                            [ id |-> row.id, name |-> row.name, path |-> row.path,
                              allowed_types |-> row.allowed_types,
                              pattern |-> row.pattern ],
                            NoExc)
    /\ UNCHANGED <<foreign_vars, attached, vault, cached_tables, cache_schema, disk, clock>>

DeleteFolderSource(folder_id) ==
    LET exists == \E f \in folders : f.id = folder_id /\ f.project_id = PROJECT
    IN
    /\ folders' = IF exists
                  THEN {f \in folders : ~(f.id = folder_id /\ f.project_id = PROJECT)}
                  ELSE folders
    /\ last' = Call("delete_folder_source", None, folder_id, folders,
                    IF exists THEN << Stmt("DELETE_FOLDER", None, OK) >> ELSE <<>>,
                    exists, NoExc)
    /\ UNCHANGED <<foreign_vars, attached, vault, cached_tables, cache_schema, disk, nextId, clock>>

ListFolderFiles(folder_id, limit, picked) ==
    LET r == list_folder_files(folder_id, limit, picked)
    IN
    /\ picked \in Picks(folder_id, limit)
    /\ last' = Call("list_folder_files", None, [folder_id |-> folder_id, limit |-> limit],
                    folders, <<>>, r.ret, r.exc)
    /\ UNCHANGED <<foreign_vars, attached, vault, cached_tables, cache_schema, folders, disk,
                   nextId, clock>>

(***************************************************************************)
(* scan_folder_source.  last_scan_snapshot is NULL until the first scan;   *)
(* the code reads NULL as the empty snapshot.                              *)
(***************************************************************************)
SnapshotItem(f) ==
    [ path |-> f.path, name |-> f.name, file_type |-> f.file_type,
      size_bytes |-> f.size_bytes, modified_at |-> IsoFormat(f.modified_at) ]

\* a change heuristic that looks at the size only
is_changed_size_only(prev, it) == prev.size_bytes # it.size_bytes

\* change heuristic: size or modified_at differs
is_changed(prev, it) ==
    prev.size_bytes # it.size_bytes \/ prev.modified_at # it.modified_at

\* an UPDATE that is skipped when the scan found no difference
persist_snapshot_if_delta(fs, found, now, curr_list, delta) ==
    IF delta = 0 THEN fs
    ELSE { IF f \in found
           THEN [f EXCEPT !.last_scanned_at = {now},
                          !.last_scan_snapshot = {JsonDumps(curr_list)}]
           ELSE f : f \in fs }

\* UPDATE _sources.folders SET last_scanned_at = ?, last_scan_snapshot = ?
\* WHERE id = ? AND project_id = ?   (whatever the delta is)
persist_snapshot(fs, found, now, curr_list, delta) ==
    { IF f \in found
      THEN [f EXCEPT !.last_scanned_at = {now},
                     !.last_scan_snapshot = {JsonDumps(curr_list)}]
      ELSE f : f \in fs }

ScanFolderSource(folder_id, limit, picked) ==
    LET now == clock
        found == {f \in folders : f.id = folder_id /\ f.project_id = PROJECT}
        row == CHOOSE f \in found : TRUE
        prev_list == IF row.last_scan_snapshot = Null THEN {}
                     ELSE JsonLoads(CHOOSE j \in row.last_scan_snapshot : TRUE)
        prev_paths == {it.path : it \in prev_list}
        prev(path) == CHOOSE it \in prev_list : it.path = path
        files == list_folder_files(folder_id, limit, picked)
        curr_list == {SnapshotItem(f) : f \in files.ret}
        curr_paths == {it.path : it \in curr_list}
        new_files == Cardinality({it \in curr_list : it.path \notin prev_paths})
        changed_files ==
            Cardinality({ it \in curr_list :
                            /\ it.path \in prev_paths
                            /\ is_changed(prev(it.path), it) })
        deleted_files == Cardinality(prev_paths \ curr_paths)
    IN
    /\ picked \in Picks(folder_id, limit)
    /\ IF found = {}
       THEN /\ last' = Call("scan_folder_source", None,
                            [folder_id |-> folder_id, limit |-> limit], folders, <<>>, None,
                            Raise("SourceNotFoundError", folder_id, None))
            /\ UNCHANGED folders
       ELSE IF files.exc.type # "none"
       THEN /\ last' = Call("scan_folder_source", None,
                            [folder_id |-> folder_id, limit |-> limit], folders, <<>>, None,
                            files.exc)
            /\ UNCHANGED folders
       ELSE /\ folders' = persist_snapshot(folders, found, now, curr_list,
                                            new_files + changed_files + deleted_files)
            /\ last' = Call("scan_folder_source", None,
                            [folder_id |-> folder_id, limit |-> limit], folders,
                            << Stmt("UPDATE_SNAPSHOT", None, OK) >>,
                            [ folder_id |-> folder_id, scanned_at |-> now,
                              new_files |-> new_files,
                              changed_files |-> changed_files,
                              deleted_files |-> deleted_files ],
                            NoExc)
    /\ UNCHANGED <<foreign_vars, attached, vault, cached_tables, cache_schema, disk, nextId, clock>>

\* the user's files change between calls
DiskChange(path, entries) ==
    /\ disk' = Put(disk, path, entries)
    /\ disk' # disk
    /\ last' = Call("disk_change", None, path, None, <<>>, None, NoExc)
    /\ UNCHANGED <<foreign_vars, attached, vault, cached_tables, cache_schema, folders, nextId, clock>>


(***************************************************************************)
(* Connections to the warehouse file.  Every service of a project opens    *)
(* the same file (settings.duckdb.path).  connect_warehouse takes the      *)
(* module's RLock around connect ... close; SourceService._connect and     *)
(* FileAssetService._get_connection call duckdb.connect themselves.  The   *)
(* statements run on an open connection are those of the operations above; *)
(* here only the opening and closing of connections is followed.           *)
(***************************************************************************)
MaxThreads == 3
Threads == 1..MaxThreads

\* operations that open their connection with connect_warehouse
LockedOps == {"execute_query"}
\* operations that open their connection with duckdb.connect
UnlockedOps == { "attach_source", "detach_source", "cache_table", "drop_cache",
                 "scan_folder_source", "import_file" }

Idle == [op |-> "none", pc |-> "idle", conns |-> 0]
\* threading.RLock(): owner 0 when nobody holds it
Unlocked == [owner |-> 0, count |-> 0]

\* with _duckdb_conn_lock: entered when the lock is free or held by the thread
Acquire(t, op) ==
    /\ threads[t].pc = "idle"
    /\ op \in LockedOps
    /\ _duckdb_conn_lock.owner \in {0, t}
    /\ _duckdb_conn_lock' = [owner |-> t, count |-> _duckdb_conn_lock.count + 1]
    /\ threads' = [threads EXCEPT ![t] = [op |-> op, pc |-> "locked", conns |-> 0]]

\* con = duckdb.connect(str(path)), inside the lock
LockedConnect(t) ==
    /\ threads[t].pc = "locked"
    /\ threads' = [threads EXCEPT ![t].pc = "open", ![t].conns = 1]
    /\ UNCHANGED _duckdb_conn_lock

\* finally: con.close()
LockedClose(t) ==
    /\ threads[t].pc = "open"
    /\ threads[t].op \in LockedOps
    /\ threads' = [threads EXCEPT ![t].pc = "closed", ![t].conns = 0]
    /\ UNCHANGED _duckdb_conn_lock

\* leaving the with block releases the lock
Release(t) ==
    /\ threads[t].pc = "closed"
    /\ _duckdb_conn_lock' =
          IF _duckdb_conn_lock.owner = t /\ _duckdb_conn_lock.count > 1
          THEN [owner |-> t, count |-> _duckdb_conn_lock.count - 1]
          ELSE Unlocked
    /\ threads' = [threads EXCEPT ![t] = Idle]

\* with self._connect() as con: duckdb.connect(str(self.warehouse_path))
Connect(t, op) ==
    /\ threads[t].pc = "idle"
    /\ op \in UnlockedOps
    /\ threads' = [threads EXCEPT ![t] = [op |-> op, pc |-> "open", conns |-> 1]]
    /\ UNCHANGED _duckdb_conn_lock

\* the end of the with block closes the connection
Close(t) ==
    /\ threads[t].pc = "open"
    /\ threads[t].op \in UnlockedOps
    /\ threads' = [threads EXCEPT ![t] = Idle]
    /\ UNCHANGED _duckdb_conn_lock

(***************************************************************************)
(* The state after construction: _ensure_metadata_tables has created the   *)
(* empty metadata tables and the empty cache schema; the vault of the      *)
(* process is empty.                                                       *)
(***************************************************************************)
DIR == <<"/data">>

Init ==
    /\ attached = {}
    /\ vault = EmptyDict
    /\ cached_tables = {}
    /\ cache_schema = EmptyDict
    /\ folders = {}
    /\ disk = Put(EmptyDict, DIR, {})
    /\ nextId = 1
    /\ clock = 0
    /\ last = Call("init", None, None, None, <<>>, None, NoExc)
    /\ _duckdb_conn_lock = Unlocked
    /\ threads = [t \in Threads |-> Idle]
    /\ run_history = <<>>
    /\ file_diagnoses = {}
    /\ _futures = EmptyDict
    /\ futures = <<>>
    /\ tool_calls = <<>>
    /\ hitl_log = <<>>

(***************************************************************************)
(* Inputs.                                                                 *)
(***************************************************************************)
N_pg == <<"p","g">>
N_db == <<"d","b","_","2">>
N_digit == <<"1","b","a","d">>
N_dash == <<"b","a","d","-","n">>
N_newline == <<"p","g","\n">>
N_empty == <<>>

V_secret == <<"s","3","c","r">>
V_host == <<"h","1">>
V_file == <<"f",".","d","b">>
V_dsn == <<"p","o","s","t","g","r","e","s",":","/","/","u",":","s","3","c","r","@","h","1","/","d">>
K_api_key == <<"A","P","I","_","K","E","Y">>
K_auth_token == <<"A","u","t","h","T","o","k","e","n">>
K_monkey == <<"m","o","n","k","e","y">>

CfgPassword == Put(Put(EmptyDict, K_host, V_host), K_password, V_secret)
CfgDsn == Put(EmptyDict, K_dsn, V_dsn)
CfgPath == Put(EmptyDict, K_path, V_file)
CfgKeys == Put(Put(Put(Put(EmptyDict, K_api_key, V_secret), K_auth_token, V_secret),
                   K_monkey, V_host), K_host, V_host)

D_sales == <<"sales db">>

L_t == <<"t">>
L_space == <<"b","a","d"," ","n">>
L_newline == <<"t","\n">>


(***************************************************************************)
(* SpecSource: the source registry (attach, detach, update) of one project *)
(***************************************************************************)
MaxSourceIds == 3

SourceNames == {N_pg, N_db}
AttachInputs ==
    { [source_type |-> "postgres", config |-> CfgPassword],
      [source_type |-> "duckdb", config |-> CfgPath] }
Descriptions == {None, D_sales}
AttachResults == {OK, E_attach, E_auth}

NextSource ==
    \/ /\ nextId <= MaxSourceIds
       /\ \E name \in SourceNames, i \in AttachInputs, d \in Descriptions,
             res \in AttachResults :
             AttachSource(name, i.source_type, i.config, d, res)
    \/ \E name \in SourceNames, detach_ok \in BOOLEAN : DetachSource(name, detach_ok)
    \/ \E name \in SourceNames, d \in Descriptions : UpdateSource(name, d)

SpecSource == Init /\ [][NextSource]_vars


(***************************************************************************)
(* Properties of the source registry.                                      *)
(***************************************************************************)
\* the words whose presence in a lowercased key makes the key secret-bearing
SecretWords ==
    { <<"p","a","s","s","w","o","r","d">>, <<"s","e","c","r","e","t">>,
      <<"t","o","k","e","n">>, <<"k","e","y">>,
      <<"c","r","e","d","e","n","t","i","a","l">> }
SecretBearing(k) == \E w \in SecretWords : Contains(Lower(k), w)
Masked(config) ==
    [k \in DOMAIN config |-> IF SecretBearing(k) THEN MASK ELSE config[k]]

AttachOk == last.op = "attach_source" /\ last.exc.type = "none"
AttachEngineError ==
    /\ last.op = "attach_source"
    /\ Len(last.log) > 0
    /\ last.log[1].stmt = "ATTACH"
    /\ last.log[1].result # OK

\* C1: there is at most one metadata row per source name, and when an
\* attach_source call has succeeded (in particular the second of two successful
\* calls with one name) exactly one non-detached row exists for the name; it
\* has the source_type and the (sanitized) connection_config of that call,
\* status 'attached' and no error_message.
C1_OneRowPerName ==
    /\ \A r1, r2 \in attached : r1.name = r2.name => r1 = r2
    /\ AttachOk =>
         LET rows == {r \in attached : r.name = last.name}
         IN /\ Cardinality({r \in rows : r.status # "detached"}) = 1
            /\ \A r \in rows :
                 /\ r.status = "attached"
                 /\ r.error_message = None
                 /\ r.source_type = last.arg.source_type
                 /\ JsonLoads(r.connection_config) = Masked(last.arg.config)

\* a second successful attach of a name, with another type and config than the
\* first, which had left the row 'attached'
C1_Witness ==
    /\ AttachOk
    /\ \E b \in last.before.rows :
         /\ b.status = "attached"
         /\ b.source_type # last.arg.source_type
         /\ JsonLoads(b.connection_config) # Masked(last.arg.config)

\* C2: when the ATTACH of attach_source raises an engine error, a row for the
\* name with status 'error' and the error text exists when the call ends, the
\* write of that row is the last statement of the call, and the call raises
\* AttachError(name, text); whatever row the name had before.
C2_FailedAttachRecorded ==
    AttachEngineError =>
        /\ \E r \in attached :
             /\ r.name = last.name
             /\ r.status = "error"
             /\ r.error_message = last.log[1].result
        /\ last.log[Len(last.log)].stmt = "UPSERT_ERROR"
        /\ last.exc = Raise("AttachError", last.name, last.log[1].result)

\* a failed attach on a name whose row was 'detached' with another error text
C2_Witness ==
    /\ AttachEngineError
    /\ \E b \in last.before.rows :
         b.status = "detached" /\ b.error_message # last.log[1].result

GetSourceIn(rows, name) == {r \in rows : r.name = name /\ r.status # "detached"}
Detached(rows, name) == \E r \in rows : r.name = name /\ r.status = "detached"

\* C6: detach_source returns false and leaves the metadata rows unchanged
\* exactly when the name has no non-detached row; otherwise it returns true,
\* the row is kept with only its status changed to 'detached', the vault has
\* no entry for the name, get_source finds nothing and list_sources omits the
\* name, also when the DETACH statement failed; and a detached row stays
\* detached over every step that is not an attach_source of that name.
C6_DetachStep ==
    /\ last'.op = "detach_source" =>
         /\ last'.ret = (GetSourceIn(attached, last'.name) # {})
         /\ last'.name \notin DOMAIN vault'
         /\ ~last'.ret => attached' = attached
         /\ last'.ret =>
              /\ attached' = { IF r.name = last'.name
                               THEN [r EXCEPT !.status = "detached"] ELSE r :
                               r \in attached }
              /\ Detached(attached', last'.name)
              /\ GetSourceIn(attached', last'.name) = {}
              /\ \A r \in attached' : r.status # "detached" => r.name # last'.name
    /\ \A r \in attached :
         (r.status = "detached" /\ ~(last'.op = "attach_source" /\ last'.name = r.name))
            => /\ Detached(attached', r.name)
               /\ GetSourceIn(attached', r.name) = {}

C6_Detach == [][C6_DetachStep]_vars

\* a detach that returned true although its DETACH statement failed, on a
\* source whose credentials were in the vault
C6_Witness ==
    /\ last.op = "detach_source"
    /\ last.ret
    /\ \E i \in 1..Len(last.log) : last.log[i].stmt = "DETACH" /\ last.log[i].result # OK
    /\ last.before.vault # {}
    /\ get_source(last.name) = {}
    /\ \A x \in list_sources : x.name # last.name

(***************************************************************************)
(* SpecValidation: attach_source and cache_table called with names that    *)
(* are and are not identifiers.                                            *)
(***************************************************************************)
MaxValidationIds == 3

ValidationNames == {N_pg, N_digit, N_dash, N_newline, N_empty}
ValidationSources == {N_pg, N_newline}
ValidationLocals == {None, L_t, L_space, L_newline}

NextValidation ==
    \/ /\ nextId <= MaxValidationIds
       /\ \E name \in ValidationNames, res \in {OK, E_attach} :
             AttachSource(name, "duckdb", CfgPath, None, res)
    \/ /\ nextId <= MaxValidationIds
       /\ \E s \in ValidationSources, l \in ValidationLocals,
             reattach_result \in {OK, E_attach}, fault \in {"none", "create"} :
             CacheTable(s, T_orders, l, None, Null, reattach_result, fault)
    \/ \E name \in ValidationSources : DetachSource(name, TRUE)

SpecValidation == Init /\ [][NextValidation]_vars

\* a string of the language ^[A-Za-z_][A-Za-z0-9_]*$: a letter or underscore
\* followed by letters, digits and underscores, and nothing else
IsIdentifier(name) ==
    /\ Len(name) >= 1
    /\ IdentStart(name[1])
    /\ \A i \in 2..Len(name) : IdentPart(name[i])

\* C3: an attach_source call whose name is no identifier raises, executes no
\* statement (no ATTACH), writes no metadata row and no vault entry; a
\* cache_table call whose resolved local table name is no identifier raises,
\* executes no statement (no DROP, no CREATE) and leaves the cache tables and
\* the cached_tables rows as they were.
C3_ValidationFirstStep ==
    /\ (last'.op = "attach_source" /\ ~IsIdentifier(last'.name)) =>
          /\ last'.exc.type # "none"
          /\ last'.log = <<>>
          /\ attached' = attached
          /\ vault' = vault
    /\ (last'.op = "cache_table" /\ ~IsIdentifier(last'.arg.local_table)) =>
          /\ last'.exc.type # "none"
          /\ last'.log = <<>>
          /\ cache_schema' = cache_schema
          /\ cached_tables' = cached_tables

C3_ValidationFirst == [][C3_ValidationFirstStep]_vars


(***************************************************************************)
(* SpecSanitize: attach_source with every shape of config.                 *)
(***************************************************************************)
MaxSanitizeIds == 2

SanitizeInputs ==
    { [source_type |-> "postgres", config |-> CfgPassword],
      [source_type |-> "postgres", config |-> CfgDsn],
      [source_type |-> "mysql", config |-> CfgKeys],
      [source_type |-> "sqlite", config |-> CfgPath] }

NextSanitize ==
    \/ /\ nextId <= MaxSanitizeIds
       /\ \E name \in SourceNames, i \in SanitizeInputs, res \in {OK, E_auth} :
             AttachSource(name, i.source_type, i.config, None, res)
    \/ \E name \in SourceNames : DetachSource(name, TRUE)

SpecSanitize == Init /\ [][NextSanitize]_vars

\* the row attach_source has just written holds the config of this call: the
\* success path writes it always, the failure path only when it inserts the row
WroteConfig ==
    /\ last.op = "attach_source"
    /\ Len(last.log) > 0
    /\ (last.exc.type = "none" \/ last.before.rows = {})

\* C4: in every row of _sources.attached each secret-bearing key of the
\* stored config holds the mask; and the row an attach_source call has written,
\* on success and on failure, holds for each secret-bearing key of the call's
\* config the mask and for every other key the supplied value.  (A failed call
\* on a name that has a row leaves the stored config of that row as it was.)
C4_SecretKeysMasked ==
    /\ \A r \in attached :
         \A k \in DOMAIN JsonLoads(r.connection_config) :
            SecretBearing(k) => JsonLoads(r.connection_config)[k] = MASK
    /\ (last.op = "attach_source" /\ Len(last.log) > 0) =>
         \E r \in attached :
            /\ r.name = last.name
            /\ IF WroteConfig
               THEN LET stored == JsonLoads(r.connection_config)
                    IN /\ DOMAIN stored = DOMAIN last.arg.config
                       /\ \A k \in DOMAIN stored :
                            stored[k] = IF SecretBearing(k) THEN MASK
                                        ELSE last.arg.config[k]
               ELSE \E b \in last.before.rows :
                       r.connection_config = b.connection_config

\* a failed attach that inserted the row of a config with secret-bearing keys
\* in mixed case next to a key that bears no secret
C4_Witness ==
    /\ AttachEngineError
    /\ last.before.rows = {}
    /\ last.arg.config = CfgKeys
    /\ \E r \in attached :
         /\ r.name = last.name
         /\ JsonLoads(r.connection_config)[K_api_key] = MASK
         /\ JsonLoads(r.connection_config)[K_host] = V_host

\* C5: no credential value supplied by a caller (V_secret is the password or
\* token of every config the calls supply) appears in a connection_config
\* stored in _sources.attached, whatever the shape of the config; the full
\* config of an attached source is in the vault.
C5_NoCredentialPersisted ==
    /\ \A r \in attached :
         \A k \in DOMAIN JsonLoads(r.connection_config) :
            ~Contains(JsonLoads(r.connection_config)[k], V_secret)
    /\ AttachOk => (last.name \in DOMAIN vault /\ vault[last.name] = last.arg.config)

(***************************************************************************)
(* SpecCache: the cache of the tables of one source: cache_table,          *)
(* refresh_cache, drop_cache and cleanup_expired_caches, while the source  *)
(* is attached and detached and time passes.                               *)
(***************************************************************************)
MaxCacheIds == 3
MaxCacheClock == 2

L_pg_ord == N_pg \o <<"_">> \o T_orders
\* the calls of cache_table: on one local table with two filters, with and
\* without expiry, and on the default local table (source_table) without filter
CacheInputs ==
    { [local_table |-> L_t, filter_sql |-> F_low, expires_hours |-> Null],
      [local_table |-> L_t, filter_sql |-> F_high, expires_hours |-> {1}],
      [local_table |-> None, filter_sql |-> None, expires_hours |-> {1}] }
CacheLocalNames == {L_pg_ord, L_t}
CacheFaults == {"none", "drop", "create", "count"}

NextCache ==
    \/ /\ nextId <= MaxCacheIds
       /\ \E res \in {OK, E_attach} : AttachSource(N_pg, "duckdb", CfgPath, None, res)
    \/ DetachSource(N_pg, TRUE)
    \/ /\ nextId <= MaxCacheIds
       /\ \E i \in CacheInputs, reattach_result \in {OK, E_attach}, fault \in CacheFaults :
             CacheTable(N_pg, T_orders, i.local_table, i.filter_sql, i.expires_hours,
                        reattach_result, fault)
    \/ /\ nextId <= MaxCacheIds
       /\ \E l \in CacheLocalNames, reattach_result \in {OK, E_attach},
             fault \in CacheFaults :
             RefreshCache(l, reattach_result, fault)
    \/ \E l \in CacheLocalNames, drop_ok \in BOOLEAN : DropCache(l, drop_ok)
    \/ \E drop_failing \in SUBSET CacheLocalNames : CleanupExpiredCaches(drop_failing)
    \/ clock < MaxCacheClock /\ Tick

SpecCache == Init /\ [][NextCache]_vars

\* the rows of the source table that a call with this filter selects
SelectedRows(source_table, filter_sql) ==
    IF filter_sql = None \/ filter_sql = <<>> THEN RemoteRows(source_table)
    ELSE FilterRows(filter_sql, RemoteRows(source_table))

CacheCall == last.op \in {"cache_table", "refresh_cache"}
\* the metadata rows and the materialized table of the call's local_table now
RowsNow == {c \in cached_tables : c.local_table = last.arg.local_table}
TablesNow ==
    {cache_schema[l] : l \in DOMAIN cache_schema \cap {last.arg.local_table}}
\* the expiry a call made now with the call's expires_hours gives
ExpectedExpiry == {clock + h : h \in last.arg.expires_hours \ {0}}

\* table and metadata row are those of the call that has just ended
ReflectsNew ==
    /\ TablesNow = {SelectedRows(last.arg.source_table, last.arg.filter_sql)}
    /\ \E r \in cached_tables :
         /\ RowsNow = {r}
         /\ r.source_name = last.name
         /\ r.source_table = last.arg.source_table
         /\ r.filter_sql = last.arg.filter_sql
         /\ r.row_count =
              {Cardinality(SelectedRows(last.arg.source_table, last.arg.filter_sql))}
         /\ r.expires_at = ExpectedExpiry

\* C7: there is at most one cached_tables row per local_table, whatever calls
\* of cache_table, refresh_cache, drop_cache and cleanup_expired_caches have
\* been made; and when a cache_table call has succeeded (in particular the
\* second of two calls on one local_table with different filters) the cache
\* table holds exactly the rows that call selects and the one metadata row has
\* that call's filter_sql, row_count and expires_at.
C7_ReplaceSemantics ==
    /\ \A c1, c2 \in cached_tables : c1.local_table = c2.local_table => c1 = c2
    /\ (last.op = "cache_table" /\ last.exc.type = "none") =>
          /\ ReflectsNew
          /\ \A r \in RowsNow : r.expires_at = last.ret.expires_at

\* a successful cache_table on a local_table that was cached with another
\* filter, other rows and another expiry
C7_Witness ==
    /\ last.op = "cache_table"
    /\ last.exc.type = "none"
    /\ \E b \in last.before.rows :
         /\ b.filter_sql # last.arg.filter_sql
         /\ b.expires_at # ExpectedExpiry
    /\ last.before.tables # {}
    /\ last.before.tables # TablesNow

Recaching ==
    /\ CacheCall
    /\ last.before.rows # {}
    /\ last.before.tables # {}

\* C8 as stated: when a cache_table or refresh_cache call on a cached
\* local_table ends, by returning or by raising, table and metadata row either
\* both are those of the new call or both are what they were before the call.
C8_Atomic ==
    Recaching =>
        \/ ReflectsNew
        \/ (RowsNow = last.before.rows /\ TablesNow = last.before.tables)

Ran(stmt, result_ok) ==
    \E i \in 1..Len(last.log) :
        last.log[i].stmt = stmt /\ ((last.log[i].result = OK) = result_ok)

\* C8, amended: when such a call returns, table and metadata row both are
\* those of the new call; when it raises, the metadata row is what it was, and
\* the table is what it was if no DROP succeeded, is gone if CREATE TABLE AS
\* failed, and holds the new selection if the row count failed.
C8_ReturnOrRaise ==
    Recaching =>
        IF last.exc.type = "none"
        THEN ReflectsNew
        ELSE /\ RowsNow = last.before.rows
             /\ ~Ran("DROP", TRUE) => TablesNow = last.before.tables
             /\ Ran("CREATE", FALSE) => TablesNow = {}
             /\ Ran("COUNT", FALSE) =>
                  TablesNow = {SelectedRows(last.arg.source_table, last.arg.filter_sql)}

\* a re-cache that raised after its DROP: the metadata row is still there and
\* the table is gone
C8_Witness ==
    /\ Recaching
    /\ last.exc.type = "CacheError"
    /\ Ran("DROP", TRUE)
    /\ Ran("CREATE", FALSE)
    /\ RowsNow # {}
    /\ TablesNow = {}

\* C9: a cache_table call (made directly or by refresh_cache) in which DROP,
\* CREATE TABLE AS or the row count raises an engine error raises
\* CacheError(source_table, text of the engine error), and the rows of
\* _sources.cached_tables after the call are the rows before it.
C9_FailureStep ==
    (/\ last'.op \in {"cache_table", "refresh_cache"}
     /\ \E i \in 1..Len(last'.log) :
          /\ last'.log[i].stmt \in {"DROP", "CREATE", "COUNT"}
          /\ last'.log[i].result # OK)
    => /\ \E i \in 1..Len(last'.log) :
            /\ last'.log[i].stmt \in {"DROP", "CREATE", "COUNT"}
            /\ last'.log[i].result # OK
            /\ last'.exc = Raise("CacheError", last'.arg.source_table, last'.log[i].result)
       /\ cached_tables' = cached_tables

C9_FailureKeepsMetadata == [][C9_FailureStep]_vars

\* a cache_table on a cached local_table whose row count failed: the new table
\* is in place, the metadata rows are the old ones
C9_Witness ==
    /\ last.op = "cache_table"
    /\ Ran("COUNT", FALSE)
    /\ last.exc.type = "CacheError"
    /\ last.before.rows # {}
    /\ RowsNow = last.before.rows
    /\ TablesNow # last.before.tables

(***************************************************************************)
(* SpecNotFound: the operations that look a source or a folder up, on      *)
(* sources that are attached, failed, detached or unknown and on folder    *)
(* ids that exist, were deleted or were never given out.                   *)
(***************************************************************************)
MaxNotFoundIds == 2

F_a == [name |-> <<"a",".","c","s","v">>, is_file |-> TRUE, size_bytes |-> 1, mtime |-> 0]
F_b == [name |-> <<"b",".","c","s","v">>, is_file |-> TRUE, size_bytes |-> 2, mtime |-> 0]
DiskStates == {{}, {F_a}, {F_a, F_b}}
N_folder == <<"f">>
\* uuid4() never draws 0: the id of no folder
FolderIds == 0..MaxNotFoundIds
Limits == {0, 1, 2}
\* what the three listing strategies do, in the order the code tries them
Modes == { <<"rows", "error", "error">>, <<"error", "rows", "error">>,
           <<"empty", "empty", "rows">>, <<"error", "error", "error">> }

NextNotFound ==
    \/ /\ nextId <= MaxNotFoundIds
       /\ \E res \in {OK, E_attach} : AttachSource(N_pg, "duckdb", CfgPath, None, res)
    \/ DetachSource(N_pg, TRUE)
    \/ \E name \in SourceNames, fault \in {"none", "create"} :
          \* a call that finds no source draws no id
          /\ nextId <= MaxNotFoundIds \/ get_source(name) = {}
          /\ CacheTable(name, T_orders, L_t, None, Null, OK, fault)
    \/ \E name \in SourceNames, reattach_result \in {OK, E_attach}, m \in Modes :
          \E cached_map \in CachedMaps(name) :
             ListSourceTables(name, reattach_result, m[1], m[2], m[3], cached_map)
    \/ \E name \in SourceNames, reattach_result \in {OK, E_attach}, count_ok \in BOOLEAN :
          EstimateTableSize(name, T_orders, reattach_result, count_ok)
    \/ /\ nextId <= MaxNotFoundIds
       /\ \E allowed_types \in {"csv", "both", "xls"} :
             CreateFolderSource(N_folder, DIR, allowed_types, None)
    \/ \E folder_id \in FolderIds : DeleteFolderSource(folder_id)
    \/ \E folder_id \in FolderIds, limit \in Limits :
          \E picked \in Picks(folder_id, limit) : ListFolderFiles(folder_id, limit, picked)
    \/ \E folder_id \in FolderIds, limit \in Limits :
          \E picked \in Picks(folder_id, limit) : ScanFolderSource(folder_id, limit, picked)
    \/ \E entries \in DiskStates : DiskChange(DIR, entries)

SpecNotFound == Init /\ [][NextNotFound]_vars

SourceLookup == {"list_source_tables", "cache_table", "estimate_table_size"}
FolderLookup == {"scan_folder_source", "list_folder_files"}
Resolves(folder_id) ==
    \E f \in folders : f.id = folder_id /\ f.project_id = PROJECT

\* a call of one of the three source operations on a name that has no row or a
\* detached row raises SourceNotFoundError, runs no statement (no re-attach)
\* and changes no metadata row, no cache table and no vault entry
SourceLookupStep ==
    (last'.op \in SourceLookup /\ GetSourceIn(attached, last'.name) = {}) =>
        /\ last'.exc = Raise("SourceNotFoundError", last'.name, None)
        /\ last'.log = <<>>
        /\ UNCHANGED <<attached, vault, cached_tables, cache_schema, folders>>

\* C10 as stated: ... and scan_folder_source and list_folder_files raise
\* SourceNotFoundError and leave the folder rows (the stored snapshots) as
\* they were when the folder id does not resolve within the project.
C10_NotFoundStep ==
    /\ SourceLookupStep
    /\ (last'.op \in FolderLookup /\ ~Resolves(last'.arg.folder_id)) =>
          /\ last'.exc = Raise("SourceNotFoundError", last'.arg.folder_id, None)
          /\ folders' = folders

C10_NotFound == [][C10_NotFoundStep]_vars

\* C10, amended: the same, where list_folder_files is called with limit >= 1
\* (with a smaller limit it raises ValueError before it looks the folder up,
\* also leaving the folder rows as they were).
C10_NotFoundValidLimitStep ==
    /\ SourceLookupStep
    /\ (last'.op \in FolderLookup /\ ~Resolves(last'.arg.folder_id)) =>
          /\ folders' = folders
          /\ IF last'.op = "list_folder_files" /\ last'.arg.limit < 1
             THEN last'.exc.type = "ValueError"
             ELSE last'.exc = Raise("SourceNotFoundError", last'.arg.folder_id, None)

C10_NotFoundValidLimit == [][C10_NotFoundValidLimitStep]_vars

\* cache_table on a detached source that has a cached table: it raised
\* SourceNotFoundError and the table and its row are still there
C10_Witness ==
    /\ last.op = "cache_table"
    /\ last.exc.type = "SourceNotFoundError"
    /\ Detached(attached, last.name)
    /\ last.log = <<>>
    /\ last.before.rows # {}
    /\ RowsNow = last.before.rows
    /\ TablesNow = last.before.tables

(***************************************************************************)
(* SpecExpiry: cached tables with every kind of TTL (none, zero, positive, *)
(* negative), refreshed and cleaned up while time passes.                  *)
(***************************************************************************)
MaxExpiryIds == 4
MaxExpiryClock == 2

L_z == <<"z">>
\* the calls of cache_table: local table z only ever with expires_hours = 0,
\* local table t with the other TTLs, the default local table with one hour
ExpiryInputs ==
    { [local_table |-> L_z, filter_sql |-> None, expires_hours |-> {0}],
      [local_table |-> L_t, filter_sql |-> F_low, expires_hours |-> Null],
      [local_table |-> L_t, filter_sql |-> F_low, expires_hours |-> {2}],
      [local_table |-> L_t, filter_sql |-> None, expires_hours |-> {-1}],
      [local_table |-> None, filter_sql |-> None, expires_hours |-> {1}] }
ExpiryLocalNames == {L_z, L_t, L_pg_ord}

NextExpiry ==
    \/ /\ nextId <= MaxExpiryIds
       /\ attached = {}
       /\ AttachSource(N_pg, "duckdb", CfgPath, None, OK)
    \/ /\ nextId <= MaxExpiryIds
       /\ \E i \in ExpiryInputs :
             CacheTable(N_pg, T_orders, i.local_table, i.filter_sql, i.expires_hours,
                        OK, "none")
    \/ /\ nextId <= MaxExpiryIds
       /\ \E l \in ExpiryLocalNames, fault \in {"none", "create"} :
             RefreshCache(l, OK, fault)
    \/ \E drop_failing \in SUBSET ExpiryLocalNames : CleanupExpiredCaches(drop_failing)
    \/ clock < MaxExpiryClock /\ Tick

SpecExpiry == Init /\ [][NextExpiry]_vars

\* expires_at minus cached_at of a metadata row, Null when it has no expiry
Duration(c) == {e - c.cached_at : e \in c.expires_at}

RefreshedOk ==
    /\ last.op = "refresh_cache"
    /\ last.exc.type = "none"

\* C11: after a successful refresh_cache(local_table) the metadata row of
\* local_table has the source_name, source_table and filter_sql it had before
\* the call and the same TTL duration (expires_at - cached_at, or no expiry
\* when it had none), whatever TTL the table was cached with.
C11_RefreshKeepsShape ==
    RefreshedOk =>
        /\ Cardinality(RowsNow) = 1
        /\ \A o \in last.before.rows : \A n \in RowsNow :
              /\ n.source_name = o.source_name
              /\ n.source_table = o.source_table
              /\ n.filter_sql = o.filter_sql
              /\ Duration(n) = Duration(o)
              /\ n.cached_at = clock

\* a table cached with a TTL of two hours and a filter, refreshed an hour or
\* more later: the new row expires two hours after the refresh
C11_Witness ==
    /\ RefreshedOk
    /\ \E o \in last.before.rows : \E n \in RowsNow :
          /\ o.cached_at < n.cached_at
          /\ o.filter_sql = F_low
          /\ Duration(o) = {2}
          /\ n.expires_at = {clock + 2}

(***************************************************************************)
(* refresh_cache and drop_cache under SpecCache.                           *)
(***************************************************************************)
\* isinstance(exc, cls) for the error classes of errors.py: AttachError,
\* CacheError and SourceNotFoundError are kinds of their own
IsInstance(exc, cls) == exc.type = cls

\* C12: every refresh_cache call either returns a CachedTable or raises
\* CacheError: with no metadata row, with a failing re-materialization, and
\* with a source that was detached after the table was cached.
C12_ReturnsOrCacheError ==
    last.op = "refresh_cache" =>
        \/ last.exc = NoExc
        \/ IsInstance(last.exc, "CacheError")

\* C13: drop_cache(local_table) returns False and changes neither the metadata
\* rows nor the cache tables when local_table has no metadata row; otherwise
\* it returns True and the row is deleted, also when DROP TABLE raises, so
\* that get_cached_table(local_table) returns None afterwards.
C13_DropStep ==
    last'.op = "drop_cache" =>
        LET l == last'.arg.local_table IN
        IF get_cached_table(cached_tables, l) = {}
        THEN /\ last'.ret = FALSE
             /\ cached_tables' = cached_tables
             /\ cache_schema' = cache_schema
        ELSE /\ last'.ret = TRUE
             /\ get_cached_table(cached_tables', l) = {}
             /\ cached_tables' = cached_tables \ get_cached_table(cached_tables, l)

C13_Drop == [][C13_DropStep]_vars

\* a drop_cache whose DROP TABLE raised: True is returned, the row is gone and
\* the table is still in the cache schema
C13_Witness ==
    /\ last.op = "drop_cache"
    /\ Ran("DROP", FALSE)
    /\ last.ret = TRUE
    /\ last.before.rows # {}
    /\ get_cached_table(cached_tables, last.arg.local_table) = {}
    /\ TablesNow # {}

(***************************************************************************)
(* cleanup_expired_caches under SpecExpiry.                                *)
(***************************************************************************)
\* the row was cached with expires_hours = 0 (local table z is cached in no
\* other way, and a refresh keeps the TTL) before the time now
CachedWithZeroTtl(c, now) == c.local_table = L_z /\ c.cached_at < now

\* expires_at of the row lies before the time now
InThePast(c, now) == c.expires_at # Null /\ \A e \in c.expires_at : e < now

\* C14: a table that was cached with expires_hours = 0, or whose expires_at
\* lies in the past, is removed by the next cleanup_expired_caches() call:
\* get_cached_table returns None for it afterwards.
C14_CleanupStep ==
    last'.op = "cleanup_expired_caches" =>
        \A c \in cached_tables :
            (CachedWithZeroTtl(c, clock) \/ InThePast(c, clock))
            => get_cached_table(cached_tables', c.local_table) = {}

C14_ExpiredRemoved == [][C14_CleanupStep]_vars

\* the local tables of a set of metadata rows
LocalTables(rows) == {c.local_table : c \in rows}

\* C15: cleanup_expired_caches removes exactly the metadata rows whose
\* expires_at is not null and earlier than the time of the call, returns the
\* number of rows removed, and leaves every row with a null or later
\* expires_at, and every cache table of such a row, as it was.
C15_CleanupStep ==
    last'.op = "cleanup_expired_caches" =>
        LET gone == {c \in cached_tables : InThePast(c, clock)} IN
        /\ cached_tables' = cached_tables \ gone
        /\ last'.ret = Cardinality(gone)
        /\ DOMAIN cache_schema' \subseteq DOMAIN cache_schema
        /\ \A l \in DOMAIN cache_schema \ LocalTables(gone) :
              /\ l \in DOMAIN cache_schema'
              /\ cache_schema'[l] = cache_schema[l]

MaxScanIds == 1
DefaultScanLimit == 5000

F_a_grown == [name |-> <<"a",".","c","s","v">>, is_file |-> TRUE, size_bytes |-> 2, mtime |-> 0]
F_a_touched == [name |-> <<"a",".","c","s","v">>, is_file |-> TRUE, size_bytes |-> 1, mtime |-> 1]
F_c == [name |-> <<"c",".","p","a","r","q","u","e","t">>, is_file |-> TRUE, size_bytes |-> 3, mtime |-> 0]
F_d == [name |-> <<"d",".","c","s","v">>, is_file |-> TRUE, size_bytes |-> 1, mtime |-> 0]
\* the directory holds at most one entry of a name
ScanDiskStates ==
    { a \cup r : a \in {{}, {F_a}, {F_a_grown}, {F_a_touched}}, r \in SUBSET {F_b, F_c, F_d} }
ScanLimits == {1, DefaultScanLimit}

NextScan ==
    \/ /\ nextId <= MaxScanIds
       /\ \E allowed_types \in {"csv", "both"} :
             CreateFolderSource(N_folder, DIR, allowed_types, None)
    \/ \E limit \in ScanLimits :
          \E picked \in Picks(1, limit) : ScanFolderSource(1, limit, picked)
    \/ \E entries \in ScanDiskStates : DiskChange(DIR, entries)

SpecScan == Init /\ [][NextScan]_vars

ScannedOk(call) == call.op = "scan_folder_source" /\ call.exc.type = "none"

\* the snapshot stored for a folder in a table of folder rows: the empty
\* listing when the folder was never scanned
SnapshotOf(fs, folder_id) ==
    UNION { IF f.last_scan_snapshot = Null THEN {}
            ELSE UNION {j.json : j \in f.last_scan_snapshot} :
            f \in {f \in fs : f.id = folder_id} }

PathsOf(listing) == {it.path : it \in listing}

\* the paths listed in both P and C whose size or modification time differ
Differing(P, C) ==
    { path \in PathsOf(P) \cap PathsOf(C) :
        \E p \in P, c \in C :
            /\ p.path = path /\ c.path = path
            /\ (p.size_bytes # c.size_bytes \/ p.modified_at # c.modified_at) }

\* C16: scan_folder_source reports the three-way diff of the previous snapshot
\* P and the current listing C: new_files = paths in C and not in P,
\* deleted_files = paths in P and not in C, changed_files = paths in both whose
\* size_bytes or modified_at differ; a path in both with equal size and
\* modification time is counted in none of the three.
C16_DiffStep ==
    ScannedOk(last') =>
        LET P == SnapshotOf(folders, last'.arg.folder_id)
            C == SnapshotOf(folders', last'.arg.folder_id)
        IN /\ last'.ret.new_files = Cardinality(PathsOf(C) \ PathsOf(P))
           /\ last'.ret.deleted_files = Cardinality(PathsOf(P) \ PathsOf(C))
           /\ last'.ret.changed_files = Cardinality(Differing(P, C))

C16_ThreeWayDiff == [][C16_DiffStep]_vars

\* a scan that found one new file, one deleted file, one file with another
\* modification time and one file as it was
C16_Witness ==
    /\ ScannedOk(last)
    /\ last.ret.new_files = 1
    /\ last.ret.changed_files = 1
    /\ last.ret.deleted_files = 1
    /\ LET P == SnapshotOf(last.before, last.arg.folder_id)
           C == SnapshotOf(folders, last.arg.folder_id)
       IN /\ P \cap C # {}
          /\ \E p \in P, c \in C :
                p.path = c.path /\ p.size_bytes = c.size_bytes
                                /\ p.modified_at # c.modified_at

\* the snapshot items of the files a scan of the folder can list now
ListableItems(folder_id) ==
    UNION { {SnapshotItem(f) : f \in Listable(row)} :
            row \in {f \in folders : f.id = folder_id /\ f.project_id = PROJECT} }

Min(a, b) == IF a <= b THEN a ELSE b

\* the call has stored a snapshot for the folder, and it is a listing of the
\* directory as it is: all files, or limit of them
PersistsObserved(call) ==
    LET all == ListableItems(call.arg.folder_id) IN
    \A f \in folders' :
        f.id = call.arg.folder_id =>
            /\ f.last_scan_snapshot # Null
            /\ \A j \in f.last_scan_snapshot :
                  /\ JsonLoads(j) \subseteq all
                  /\ Cardinality(JsonLoads(j)) = Min(call.arg.limit, Cardinality(all))

NoDelta(call) ==
    /\ call.ret.new_files = 0
    /\ call.ret.changed_files = 0
    /\ call.ret.deleted_files = 0

\* the limit of the call did not cut the listing short
Untruncated(call) == Cardinality(ListableItems(call.arg.folder_id)) <= call.arg.limit

\* the step is a successful scan that follows a successful scan of the same
\* folder with nothing in between
ConsecutiveScans ==
    /\ ScannedOk(last) /\ ScannedOk(last')
    /\ last.arg.folder_id = last'.arg.folder_id

\* C17: every successful scan_folder_source persists the listing it observed
\* as the folder's snapshot, also when the three counts are zero, and of two
\* consecutive scans with no file change in between the second reports
\* new_files = 0, changed_files = 0, deleted_files = 0.
C17_ScanStep ==
    /\ ScannedOk(last') => PersistsObserved(last')
    /\ ConsecutiveScans => NoDelta(last')

C17_ConsecutiveScans == [][C17_ScanStep]_vars

\* C17, amended: every successful scan persists the listing it observed, also
\* when the three counts are zero; of two consecutive scans with no file
\* change in between, neither cut short by its limit, the second reports
\* three zeros.
C17_UntruncatedStep ==
    /\ ScannedOk(last') => PersistsObserved(last')
    /\ (ConsecutiveScans /\ Untruncated(last) /\ Untruncated(last')) => NoDelta(last')

C17_UntruncatedScans == [][C17_UntruncatedStep]_vars

\* a second scan of an unchanged directory of several files: three zeros, and
\* the snapshot before the call is the snapshot after it
C17_Witness ==
    /\ ScannedOk(last)
    /\ NoDelta(last)
    /\ Untruncated(last)
    /\ Cardinality(SnapshotOf(folders, last.arg.folder_id)) >= 2
    /\ SnapshotOf(last.before, last.arg.folder_id) = SnapshotOf(folders, last.arg.folder_id)
    /\ \A f \in last.before : f.last_scan_snapshot # Null

(***************************************************************************)
(* SpecList: the tables of one attached source listed while they are       *)
(* cached and dropped, with every behaviour of the three discovery         *)
(* statements.                                                             *)
(***************************************************************************)
MaxListIds == 3

\* the schema-qualified name of the orders table
T_m_orders == <<"m", ".">> \o T_orders
StrategyModes == {"error", "empty", "rows"}

NextList ==
    \/ /\ nextId <= MaxListIds
       /\ attached = {}
       /\ AttachSource(N_pg, "duckdb", CfgPath, None, OK)
    \/ /\ nextId <= MaxListIds
       /\ \E source_table \in {T_orders, T_m_orders}, local_table \in {L_t, None} :
             CacheTable(N_pg, source_table, local_table, None, Null, OK, "none")
    \/ \E l \in {L_t, L_pg_ord} : DropCache(l, TRUE)
    \/ \E reattach_result \in {OK, E_attach}, m1 \in StrategyModes, m2 \in StrategyModes :
          \E m3 \in StrategyModes, cached_map \in CachedMaps(N_pg) :
             ListSourceTables(N_pg, reattach_result, m1, m2, m3, cached_map)

SpecList == Init /\ [][NextList]_vars

\* a list_source_tables call on a source that resolved
Listed == last.op = "list_source_tables" /\ last.exc.type # "SourceNotFoundError"

\* the cached_tables rows of the listed source that name the table, by its
\* schema-qualified or by its bare name
NamingRows(t) ==
    { c \in cached_tables :
        /\ c.source_name = last.name
        /\ c.source_table \in {FullName(t.schema_name, t.table_name), t.table_name} }

\* C18: list_source_tables reports a discovered table with mode 'cached' and
\* the local_table of a row exactly when a cached_tables row of that source
\* names it (by schema-qualified or bare table name), and 'live' with no
\* local_table otherwise: a table is live before it is cached, cached after
\* cache_table, live again after drop_cache, and the other tables stay live.
C18_ModeFollowsCacheRows ==
    Listed =>
        \A t \in last.ret :
            /\ t.mode \in {"cached", "live"}
            /\ t.mode = "cached" <=> NamingRows(t) # {}
            /\ t.mode = "cached" => t.local_table \in {c.local_table : c \in NamingRows(t)}
            /\ t.mode = "live" => t.local_table = None

\* the orders table was cached as t: the listing reports it cached with
\* local_table t and the users table live
C18_Witness ==
    /\ Listed
    /\ \E t \in last.ret :
          t.table_name = T_orders /\ t.mode = "cached" /\ t.local_table = L_t
    /\ \E t \in last.ret : t.table_name = T_users /\ t.mode = "live"

\* the discovery statements of the call, in the order they were run
DiscoveryLog ==
    SelectSeq(last.log, LAMBDA s : s.stmt \in {"DUCKDB_TABLES", "SHOW_TABLES", "INFORMATION_SCHEMA"})

FixedOrder == <<"DUCKDB_TABLES", "SHOW_TABLES", "INFORMATION_SCHEMA">>

\* the first strategy that returned a row, 4 when none did
FirstWithRows(m) ==
    IF m[1] = "rows" THEN 1 ELSE IF m[2] = "rows" THEN 2 ELSE IF m[3] = "rows" THEN 3 ELSE 4

\* the (schema, table) pairs the k-th strategy reports
RowsOfStrategy(k) ==
    CASE k = 1 -> rows_duckdb_tables
      [] k = 2 -> rows_show_tables
      [] k = 3 -> rows_information_schema
      [] OTHER -> {}

\* C19: list_source_tables tries duckdb_tables(), SHOW TABLES and
\* information_schema in this order; its result is that of the first strategy
\* that returns at least one row, a strategy that raises an engine error is
\* skipped, and when every strategy fails or returns nothing the call returns
\* an empty list and does not raise.
C19_FirstStrategyWins ==
    Listed =>
        LET k == FirstWithRows(last.arg)
            tried == IF k = 4 THEN 3 ELSE k
        IN /\ last.exc = NoExc
           /\ Len(DiscoveryLog) = tried
           /\ \A i \in 1..tried :
                 /\ DiscoveryLog[i].stmt = FixedOrder[i]
                 /\ (DiscoveryLog[i].result # OK) <=> (last.arg[i] = "error")
           /\ { [schema_name |-> t.schema_name, table_name |-> t.table_name] : t \in last.ret }
                = RowsOfStrategy(k)

\* the catalog function raised, SHOW TABLES returned nothing, and the listing
\* is the one of information_schema, the view included
C19_Witness ==
    /\ Listed
    /\ last.arg = <<"error", "empty", "rows">>
    /\ Len(DiscoveryLog) = 3
    /\ DiscoveryLog[1].result = E_strategy
    /\ \E t \in last.ret : t.table_name = T_view /\ t.schema_name = <<"m">>

(***************************************************************************)
(* SpecThreads: threads of one process (the request handlers run in a      *)
(* thread pool) that open and close connections to the warehouse file of   *)
(* one project.                                                            *)
(***************************************************************************)
data_vars == <<attached, vault, cached_tables, cache_schema, folders, disk,
               nextId, clock, last, run_history, file_diagnoses, hitl_vars>>

NextThreads ==
    \/ \E t \in Threads, op \in LockedOps : Acquire(t, op) /\ UNCHANGED data_vars
    \/ \E t \in Threads : LockedConnect(t) /\ UNCHANGED data_vars
    \/ \E t \in Threads : LockedClose(t) /\ UNCHANGED data_vars
    \/ \E t \in Threads : Release(t) /\ UNCHANGED data_vars
    \/ \E t \in Threads, op \in UnlockedOps : Connect(t, op) /\ UNCHANGED data_vars
    \/ \E t \in Threads : Close(t) /\ UNCHANGED data_vars

SpecThreads == Init /\ [][NextThreads]_vars

\* the threads that hold an open connection to the warehouse file
Holders == {t \in Threads : threads[t].conns > 0}

\* C20: the operations that mutate warehouse state (attach_source,
\* detach_source, cache_table, drop_cache, scan_folder_source, file import,
\* query execution) take one lock around connect-execute-close: at no time do
\* two threads hold open connections to the same warehouse file.
C20_OneOpenConnection == Cardinality(Holders) <= 1


(***************************************************************************)
(* The Asset layer's execution planner: AssetService.get_freshness,        *)
(* compile_analysis and run_analysis, which the routes of                  *)
(* api/v1/asset/router.py call and whose module (services/asset/service.py)*)
(* is not among the files.  The planner is the one of specification        *)
(* sections 3 (Analysis, ExecutionPlan) and 4.5: a depth-first walk of      *)
(* depends_on, staleness from the last successful runs, execution of the   *)
(* recompute steps in plan order.                                          *)
(***************************************************************************)
Analyses == {"A", "B", "C", "D"}
\* the declared Analyses: B reads A, D reads B and C
depends_on == [id \in Analyses |-> CASE id = "B" -> <<"A">> [] id = "D" -> <<"B", "C">> [] OTHER -> <<>>]

E_step == <<"Binder Error: step failed">>
E_dependency == <<"upstream dependency failed">>

StepResult(analysis_id, status, finished_at, error) ==
    [analysis_id |-> analysis_id, status |-> status, finished_at |-> finished_at, error |-> error]

ExecutionStep(analysis_id, action, reason) ==
    [analysis_id |-> analysis_id, action |-> action, reason |-> reason]

\* the finish times of the successful runs of an Analysis
SuccessTimes(history, id) ==
    UNION {history[i].finished_at : i \in {i \in 1..Len(history) : history[i].analysis_id = id /\ history[i].status = "success"}}

\* last_run_at: the time of the last successful run, None when it never ran
last_run_at(history, id) ==
    {t \in SuccessTimes(history, id) : \A u \in SuccessTimes(history, id) : u <= t}

\* the direct dependencies whose last successful run is newer than the Analysis's
newer_upstream(history, id) ==
    {d \in Range(depends_on[id]) : \E t \in last_run_at(history, id), u \in last_run_at(history, d) : u > t}

NoReason == [kind |-> "fresh", upstream |-> {}]

get_freshness(history, id) ==
    IF last_run_at(history, id) = Null
    THEN [is_stale |-> TRUE, last_run_at |-> Null, stale_reason |-> [kind |-> "never run", upstream |-> {}]]
    ELSE IF newer_upstream(history, id) # {}
    THEN [is_stale |-> TRUE, last_run_at |-> last_run_at(history, id),
          stale_reason |-> [kind |-> "upstream is newer", upstream |-> newer_upstream(history, id)]]
    ELSE [is_stale |-> FALSE, last_run_at |-> last_run_at(history, id), stale_reason |-> NoReason]

\* an action that looks at force only
plan_action_force_only(is_stale, forced) == IF forced THEN "recompute" ELSE "skip"

\* a step is skip when fresh and not forced, recompute when stale or forced
plan_action(is_stale, forced) == IF forced \/ is_stale THEN "recompute" ELSE "skip"

plan_step(id, status, forced) ==
    ExecutionStep(id, plan_action(status.is_stale, forced),
                  IF forced THEN [kind |-> "forced", upstream |-> {}] ELSE status.stale_reason)

\* the walk of depends_on: the dependencies of an Analysis, then the Analysis;
\* an Analysis met twice is one step
RECURSIVE walk(_, _)
RECURSIVE walk_all(_, _)
walk(id, order) ==
    IF id \in Range(order) THEN order ELSE Append(walk_all(depends_on[id], order), id)
walk_all(ids, order) ==
    IF ids = <<>> THEN order ELSE walk_all(Tail(ids), walk(Head(ids), order))

\* force is the caller's override for the targeted Analysis
compile_analysis(history, target, force) ==
    [i \in 1..Len(walk(target, <<>>)) |->
        plan_step(walk(target, <<>>)[i], get_freshness(history, walk(target, <<>>)[i]),
                  force /\ walk(target, <<>>)[i] = target)]

\* a dependency check that looks at the failed steps only
blocked_by_failed_only(id, failed, skipped) == Range(depends_on[id]) \cap failed

\* the dependencies of a step that failed or were skipped for a failed dependency
blocked_by(id, failed, skipped) == Range(depends_on[id]) \cap (failed \cup skipped)

Running(now) ==
    [results |-> <<>>, log |-> <<>>, failed |-> {}, skipped |-> {}, aborted |-> FALSE, now |-> now]

Skipped(st, id) ==
    [st EXCEPT !.results = Append(@, StepResult(id, "skipped", Null, E_dependency)),
               !.skipped = @ \cup {id}]

Failed(st, id, continue_on_failure) ==
    [st EXCEPT !.results = Append(@, StepResult(id, "failed", {st.now + 1}, E_step)),
               !.log = Append(@, Stmt("materialize", id, E_step)),
               !.failed = @ \cup {id},
               !.aborted = ~continue_on_failure,
               !.now = @ + 1]

Succeeded(st, id) ==
    [st EXCEPT !.results = Append(@, StepResult(id, "success", {st.now + 1}, None)),
               !.log = Append(@, Stmt("materialize", id, OK)),
               !.now = @ + 1]

execute_step(step, continue_on_failure, failing, st) ==
    IF blocked_by(step.analysis_id, st.failed, st.skipped) # {} THEN Skipped(st, step.analysis_id)
    ELSE IF step.action = "skip" THEN st
    ELSE IF step.analysis_id \in failing THEN Failed(st, step.analysis_id, continue_on_failure)
    ELSE Succeeded(st, step.analysis_id)

\* the steps in plan order; the first failed step ends the run unless
\* continue_on_failure
RECURSIVE execute_plan(_, _, _, _)
execute_plan(plan, continue_on_failure, failing, st) ==
    IF plan = <<>> \/ st.aborted THEN st
    ELSE execute_plan(Tail(plan), continue_on_failure, failing,
                      execute_step(Head(plan), continue_on_failure, failing, st))

GetFreshness(id) ==
    /\ last' = Call("get_freshness", id, None, run_history, <<>>, get_freshness(run_history, id), NoExc)
    /\ UNCHANGED <<not_asset_vars, run_history, clock>>

CompileAnalysis(id, force) ==
    /\ last' = Call("compile_analysis", id, force, run_history, <<>>,
                    compile_analysis(run_history, id, force), NoExc)
    /\ UNCHANGED <<not_asset_vars, run_history, clock>>

RunResult(st) == [success |-> st.failed = {}, step_results |-> st.results]

Ran_analysis(id, force, continue_on_failure, st) ==
    /\ run_history' = run_history \o st.results
    /\ clock' = st.now
    /\ last' = Call("run_analysis", id, [force |-> force, continue_on_failure |-> continue_on_failure],
                    run_history, st.log, RunResult(st), NoExc)
    /\ UNCHANGED not_asset_vars

\* failing: the Analyses whose SQL the engine rejects during this run
RunAnalysis(id, force, continue_on_failure, failing) ==
    Ran_analysis(id, force, continue_on_failure,
                 execute_plan(compile_analysis(run_history, id, force), continue_on_failure,
                              failing, Running(clock)))

(***************************************************************************)
(* SpecAsset: Analyses compiled, run and asked for their freshness          *)
(***************************************************************************)
MaxAssetClock == 4

FailingSets == {{}, {"A"}}

NextAsset ==
    \/ \E id \in Analyses : GetFreshness(id)
    \/ \E id \in Analyses, force \in BOOLEAN : CompileAnalysis(id, force)
    \/ /\ \E id \in Analyses, force \in BOOLEAN, cof \in BOOLEAN, failing \in FailingSets :
             RunAnalysis(id, force, cof, failing)
       /\ clock' <= MaxAssetClock

SpecAsset == Init /\ [][NextAsset]_vars


\* the successful runs of an Analysis recorded in a run history
SuccessfulRuns(history, id) ==
    {i \in 1..Len(history) : history[i].analysis_id = id /\ history[i].status = "success"}

\* Analysis a, a dependency of b, has a successful run later than every
\* successful run of b, and b has run
RanAfter(history, a, b) ==
    /\ a \in Range(depends_on[b])
    /\ SuccessfulRuns(history, b) # {}
    /\ \E i \in SuccessfulRuns(history, a) : \A j \in SuccessfulRuns(history, b) : j < i

IsFresh(history, id) ==
    /\ SuccessfulRuns(history, id) # {}
    /\ \A a \in Range(depends_on[id]) : ~RanAfter(history, a, id)

PlanSteps(plan, id) == {i \in 1..Len(plan) : plan[i].analysis_id = id}

C21_Freshness ==
    last.op = "get_freshness" =>
        \A a \in Analyses : RanAfter(last.before, a, last.name) =>
            /\ last.ret.is_stale
            /\ a \in last.ret.stale_reason.upstream

C21_Plan ==
    last.op = "compile_analysis" =>
        /\ (\E a \in Analyses : RanAfter(last.before, a, last.name)) =>
               \E i \in PlanSteps(last.ret, last.name) : last.ret[i].action = "recompute"
        /\ \A i \in 1..Len(last.ret) : \A d \in Range(depends_on[last.ret[i].analysis_id]) :
               \E j \in 1..(i - 1) : last.ret[j].analysis_id = d
        /\ \A i \in 1..Len(last.ret) : last.ret[i].action = "skip" =>
               /\ IsFresh(last.before, last.ret[i].analysis_id)
               /\ ~(last.arg /\ last.ret[i].analysis_id = last.name)

\* C21: when Analysis B depends on A and A's last successful run is newer than
\* B's, get_freshness(B) reports is_stale with a reason that refers to A and the
\* plan compiled for B has a recompute step for B; in every compiled plan the
\* dependencies of a step come before it, and a step is skip only when it is
\* fresh and not forced.
C21_FreshnessPropagates == C21_Freshness /\ C21_Plan

\* B is compiled, unforced, after A was re-run: A is a skip step, B a recompute step
C21_Witness ==
    /\ last.op = "compile_analysis"
    /\ last.name = "B"
    /\ last.arg = FALSE
    /\ RanAfter(last.before, "A", "B")
    /\ \E i \in PlanSteps(last.ret, "A"), j \in PlanSteps(last.ret, "B") :
           i < j /\ last.ret[i].action = "skip" /\ last.ret[j].action = "recompute"

\* the Analyses a run attempted, and those whose step failed
Attempted(call) == {call.log[i].sql : i \in 1..Len(call.log)}
FailedSteps(call) == {call.log[i].sql : i \in {i \in 1..Len(call.log) : call.log[i].result # OK}}

\* every Analysis an Analysis depends on, directly or through others
RECURSIVE UpstreamOf(_)
UpstreamOf(id) == Range(depends_on[id]) \cup UNION {UpstreamOf(d) : d \in Range(depends_on[id])}

SkippedForDependency(call, id) ==
    \E i \in 1..Len(call.ret.step_results) :
        /\ call.ret.step_results[i].analysis_id = id
        /\ call.ret.step_results[i].status = "skipped"
        /\ call.ret.step_results[i].error = E_dependency

PlanOf(call) == compile_analysis(call.before, call.name, call.arg.force)

C22_Abort ==
    (last.op = "run_analysis" /\ ~last.arg.continue_on_failure) =>
        \A i \in 1..Len(last.log) : last.log[i].result # OK => i = Len(last.log)

C22_Continue ==
    (last.op = "run_analysis" /\ last.arg.continue_on_failure) =>
        \A i \in 1..Len(PlanOf(last)) :
            IF UpstreamOf(PlanOf(last)[i].analysis_id) \cap FailedSteps(last) # {}
            THEN /\ PlanOf(last)[i].analysis_id \notin Attempted(last)
                 /\ SkippedForDependency(last, PlanOf(last)[i].analysis_id)
            ELSE PlanOf(last)[i].action = "recompute" => PlanOf(last)[i].analysis_id \in Attempted(last)

\* C22: with continue_on_failure=False run_analysis executes no step after the
\* first failed step; with continue_on_failure=True it attempts every step that
\* does not depend, directly or transitively, on a failed step, and every step
\* with a failed upstream is recorded as skipped for the dependency failure
\* and is not executed.
C22_FailureSemantics == C22_Abort /\ C22_Continue

\* D is run with continue_on_failure and A fails: B and D are skipped, C is attempted
C22_Witness ==
    /\ last.op = "run_analysis"
    /\ last.name = "D"
    /\ last.arg.continue_on_failure
    /\ FailedSteps(last) = {"A"}
    /\ "C" \in Attempted(last)
    /\ SkippedForDependency(last, "B")
    /\ SkippedForDependency(last, "D")


(***************************************************************************)
(* FileDiagnosisService (app/services/asset/file_diagnosis_service.py):    *)
(* the cache of diagnosis results.  One service per project; the table     *)
(* _file_assets.file_diagnoses lies in the warehouse file the projects     *)
(* share, its rows carry project_id.  Every method runs inside             *)
(* connect_warehouse, which holds the process's lock from connect to close.*)
(***************************************************************************)
ColumnSchema(name, type, nullable) == [name |-> name, type |-> type, nullable |-> nullable]

\* ColumnSchema.to_dict and the ColumnSchema(...) built from the stored dict
ColumnToDict(col) == Put(Put(Put(EmptyDict, "name", col.name), "type", col.type), "nullable", col.nullable)
ColumnFromDict(d) == ColumnSchema(d["name"], d["type"], Get(d, "nullable", TRUE))

MapSeq(s, F(_)) == [i \in 1..Len(s) |-> F(s[i])]

\* the row save_diagnosis inserts
DiagnosisRow(diagnosis_id, project_id, diagnosis) ==
    [ id |-> diagnosis_id, project_id |-> project_id,
      file_path |-> diagnosis.file_path, file_type |-> diagnosis.file_type,
      schema_info |-> JsonDumps(MapSeq(diagnosis.schema, ColumnToDict)),
      missing_values |-> JsonDumps(diagnosis.missing_values),
      row_count |-> diagnosis.row_count, column_count |-> Len(diagnosis.schema),
      file_size_bytes |-> diagnosis.file_size_bytes, diagnosed_at |-> diagnosis.diagnosed_at ]

\* the FileDiagnosis get_cached_diagnosis builds from a row: sample_rows is
\* not stored and comes back as the default
FileDiagnosisOf(row) ==
    [ file_path |-> row.file_path, file_type |-> row.file_type,
      schema |-> MapSeq(JsonLoads(row.schema_info), ColumnFromDict),
      missing_values |-> JsonLoads(row.missing_values),
      row_count |-> row.row_count, file_size_bytes |-> row.file_size_bytes,
      diagnosed_at |-> row.diagnosed_at, sample_rows |-> <<>> ]

\* DELETE ... WHERE file_path = ? with no project filter
delete_diagnoses_any_project(rows, project_id, file_path) == {r \in rows : r.file_path # file_path}

\* DELETE FROM file_diagnoses WHERE file_path = ? AND project_id = ?
delete_diagnoses(rows, project_id, file_path) ==
    {r \in rows : ~(r.file_path = file_path /\ r.project_id = project_id)}

\* SELECT ... WHERE file_path = ? AND project_id = ?, fetchone(): any one of
\* the rows that match; None (the empty set) when there is none
get_cached_diagnosis(rows, project_id, file_path) ==
    {FileDiagnosisOf(r) : r \in {r \in rows : r.file_path = file_path /\ r.project_id = project_id}}

SaveDiagnosis(project_id, diagnosis) ==
    /\ file_diagnoses' = delete_diagnoses(file_diagnoses, project_id, diagnosis.file_path)
                            \cup {DiagnosisRow(nextId, project_id, diagnosis)}
    /\ nextId' = nextId + 1
    /\ last' = Call("save_diagnosis", diagnosis.file_path, [project_id |-> project_id, diagnosis |-> diagnosis],
                    file_diagnoses, <<>>, nextId, NoExc)
    /\ UNCHANGED not_diagnosis_vars

GetCachedDiagnosis(project_id, file_path) ==
    /\ \E ret \in IF get_cached_diagnosis(file_diagnoses, project_id, file_path) = {} THEN {{}}
                  ELSE {{d} : d \in get_cached_diagnosis(file_diagnoses, project_id, file_path)} :
          last' = Call("get_cached_diagnosis", file_path, [project_id |-> project_id],
                       file_diagnoses, <<>>, ret, NoExc)
    /\ UNCHANGED <<not_diagnosis_vars, file_diagnoses, nextId>>

\* the count read after the DELETE is always 0: the call returns True
DeleteCachedDiagnosis(project_id, file_path) ==
    /\ file_diagnoses' = delete_diagnoses(file_diagnoses, project_id, file_path)
    /\ last' = Call("delete_cached_diagnosis", file_path, [project_id |-> project_id], file_diagnoses, <<>>,
                    get_cached_diagnosis(file_diagnoses', project_id, file_path) = {}, NoExc)
    /\ UNCHANGED <<not_diagnosis_vars, nextId>>

(***************************************************************************)
(* SpecDiagnosis: two projects that save, read and delete cached diagnoses *)
(***************************************************************************)
MaxDiagnosisIds == 4

Projects == {"default", "p2"}
P_a == <<"/", "a", ".", "c", "s", "v">>
P_b == <<"/", "b", ".", "c", "s", "v">>
DiagnosisPaths == {P_a, P_b}
Col_id == ColumnSchema("id", "BIGINT", FALSE)
Col_name == ColumnSchema("name", "VARCHAR", TRUE)

FileDiagnosis(file_path, schema, missing, row_count, size) ==
    [ file_path |-> file_path, file_type |-> "csv", schema |-> schema, missing_values |-> missing,
      row_count |-> row_count, file_size_bytes |-> size, diagnosed_at |-> 0,
      sample_rows |-> <<<<1, "x">>>> ]

Diagnoses ==
    UNION { { FileDiagnosis(path, <<Col_id, Col_name>>, Put(Put(EmptyDict, "id", 0), "name", 2), 3, 40),
              FileDiagnosis(path, <<Col_id>>, Put(EmptyDict, "id", 0), 0, 0),
              [FileDiagnosis(path, <<>>, EmptyDict, 5, 64) EXCEPT !.file_type = "parquet"] } :
            path \in DiagnosisPaths }

NextDiagnosis ==
    \/ /\ nextId <= MaxDiagnosisIds
       /\ \E p \in Projects, d \in Diagnoses : SaveDiagnosis(p, d)
    \/ \E p \in Projects, path \in DiagnosisPaths : GetCachedDiagnosis(p, path)
    \/ \E p \in Projects, path \in DiagnosisPaths : DeleteCachedDiagnosis(p, path)

SpecDiagnosis == Init /\ [][NextDiagnosis]_vars

\* what a FileDiagnosis and the one read back must agree in
SameDiagnosis(a, b) ==
    /\ a.file_type = b.file_type
    /\ a.row_count = b.row_count
    /\ a.file_size_bytes = b.file_size_bytes
    /\ a.schema = b.schema
    /\ a.missing_values = b.missing_values

RowsFor(rows, project_id, file_path) == {r \in rows : r.project_id = project_id /\ r.file_path = file_path}

C23_OneRow ==
    \A p \in Projects, path \in DiagnosisPaths : Cardinality(RowsFor(file_diagnoses, p, path)) <= 1

\* a call returns what the table holds for its project and path
C23_Read ==
    last.op = "get_cached_diagnosis" =>
        last.ret = get_cached_diagnosis(file_diagnoses, last.arg.project_id, last.name)

\* after a save the table holds the saved diagnosis, after a delete nothing,
\* and no other call changes what is held for a project and a path
C23_Step ==
    \A p \in Projects, path \in DiagnosisPaths :
        IF last'.op = "save_diagnosis" /\ last'.name = path /\ last'.arg.project_id = p
        THEN \E d \in get_cached_diagnosis(file_diagnoses', p, path) :
                /\ get_cached_diagnosis(file_diagnoses', p, path) = {d}
                /\ SameDiagnosis(d, last'.arg.diagnosis)
        ELSE IF last'.op = "delete_cached_diagnosis" /\ last'.name = path /\ last'.arg.project_id = p
        THEN get_cached_diagnosis(file_diagnoses', p, path) = {}
        ELSE get_cached_diagnosis(file_diagnoses', p, path) = get_cached_diagnosis(file_diagnoses, p, path)

\* C23: after any sequence of save_diagnosis and delete_cached_diagnosis calls
\* there is at most one cached row per project and file path, and
\* get_cached_diagnosis(path) returns the diagnosis saved last for that path
\* (same file_type, row_count, file_size_bytes, schema and missing_values), or
\* None when nothing was saved since the last delete.
C23_DiagnosisCache == [](C23_OneRow /\ C23_Read) /\ [][C23_Step]_vars

\* a second diagnosis of a path is read back while the other project holds
\* its own diagnosis of the same path
C23_Witness ==
    /\ last.op = "get_cached_diagnosis"
    /\ \E d \in last.ret : d.file_type = "parquet" /\ d.schema = <<>>
    /\ \E r \in file_diagnoses : r.file_path = last.name /\ r.project_id # last.arg.project_id
    /\ \E r \in RowsFor(file_diagnoses, last.arg.project_id, last.name) : r.id > 2


(***************************************************************************)
(* A restart of the process: the module-level _FULL_CONFIGS is empty again, *)
(* the warehouse file is as it was.                                        *)
(***************************************************************************)
Restart ==
    /\ vault' = EmptyDict
    /\ last' = Call("restart", None, None, None, <<>>, None, NoExc)
    /\ UNCHANGED <<foreign_vars, attached, cached_tables, cache_schema, folders, disk, nextId, clock>>

(***************************************************************************)
(* SpecReattach: two sources attached, detached and re-attached by the     *)
(* operations that open a connection, across restarts of the process       *)
(***************************************************************************)
MaxReattachIds == 3

ReattachSources ==
    { [name |-> N_pg, source_type |-> "postgres", config |-> CfgPassword],
      [name |-> N_db, source_type |-> "duckdb", config |-> CfgPath] }
ReattachResults == {OK, E_auth}

NextReattach ==
    \/ /\ nextId <= MaxReattachIds
       /\ \E s \in ReattachSources, res \in ReattachResults :
             AttachSource(s.name, s.source_type, s.config, None, res)
    \/ \E s \in ReattachSources : DetachSource(s.name, TRUE)
    \/ Restart
    \/ \E s \in ReattachSources, res \in ReattachResults, m \in {"error", "empty", "rows"} :
          ListSourceTables(s.name, res, m, m, "error", EmptyDict)
    \/ \E s \in ReattachSources, res \in ReattachResults : EstimateTableSize(s.name, T_orders, res, TRUE)
    \/ /\ nextId <= MaxReattachIds
       /\ \E s \in ReattachSources, res \in ReattachResults :
             CacheTable(s.name, T_orders, L_t, None, Null, res, "none")

SpecReattach == Init /\ [][NextReattach]_vars

\* a call of one of the three operations that got as far as opening its connection
OpenedConnection(call) ==
    /\ call.op \in {"list_source_tables", "cache_table", "estimate_table_size"}
    /\ call.exc.type # "SourceNotFoundError"

ReattachStmts(call) == {i \in 1..Len(call.log) : call.log[i].stmt = "REATTACH"}

\* the config the claim expects the re-attach of a row to use
VaultOrPersisted(row) ==
    IF row.name \in DOMAIN vault THEN vault[row.name] ELSE JsonLoads(row.connection_config)

\* the call attached the source of the row, once, read-only, and nothing else
ReattachedFrom(call, row) ==
    /\ Cardinality(ReattachStmts(call)) = 1
    /\ \A i \in ReattachStmts(call) :
          call.log[i].sql = _build_attach_sql(row.name, row.source_type, VaultOrPersisted(row), TRUE)

\* the failed re-attach raised nothing: the call went on to its own statements
FailureSwallowed(call) ==
    \A i \in ReattachStmts(call) : call.log[i].result # OK =>
        /\ Len(call.log) > i
        /\ call.exc.type \notin {"AttachError", "Error"}
        /\ call.op = "list_source_tables" => (call.exc = NoExc /\ call.ret = {})

\* C24: every connection that list_source_tables, cache_table or
\* estimate_table_size opens re-attaches the requested source and no other,
\* with the vault's full config when the vault holds one for the name and the
\* persisted sanitized config otherwise (as after a restart); a failure of the
\* re-attach does not propagate out of connection setup, and list_source_tables
\* then returns an empty list.
C24_ReattachesRequested ==
    OpenedConnection(last) =>
        /\ \A row \in GetSourceIn(attached, last.name) : ReattachedFrom(last, row)
        /\ FailureSwallowed(last)


\* C24 (amended): a connection opened by list_source_tables, cache_table or
\* estimate_table_size re-attaches the requested source, and no other, when
\* its row has status 'attached' - with the vault's config when the vault has
\* one for the name, with the persisted sanitized config otherwise - and
\* attaches nothing when the row has status 'error'; a failed re-attach raises
\* nothing, and list_source_tables then returns an empty list.
C24_ReattachesAttached ==
    OpenedConnection(last) =>
        /\ \A row \in GetSourceIn(attached, last.name) :
              IF row.status = "attached" THEN ReattachedFrom(last, row) ELSE ReattachStmts(last) = {}
        /\ FailureSwallowed(last)

\* after a restart the tables of the postgres source are listed: the ATTACH is
\* built from the masked config, fails, and the list is empty
C24_Witness ==
    /\ OpenedConnection(last)
    /\ last.op = "list_source_tables"
    /\ last.name = N_pg
    /\ N_pg \notin DOMAIN vault
    /\ N_db \in DOMAIN vault
    /\ \E i \in ReattachStmts(last) : last.log[i].result # OK /\ last.log[i].sql.password = MASK
    /\ last.ret = {}


(***************************************************************************)
(* The approval gate of one agent run: ApprovalPersistenceMiddleware       *)
(* .awrap_tool_call (agent/core/deep/middleware/approvals.py) and the      *)
(* ApprovalBroker it waits on (agent/core/deep/hitl.py).  Everything runs  *)
(* on one event loop: a coroutine runs until it awaits, so each action is  *)
(* the code between two awaits that may suspend.  broker._emit is a        *)
(* callback the broker is given; awaiting it may suspend.                  *)
(***************************************************************************)
TN_write_file == <<"w","r","i","t","e","_","f","i","l","e">>
TN_edit_file == <<"e","d","i","t","_","f","i","l","e">>
TN_task == <<"t","a","s","k">>
TN_dbt_run == <<"d","b","t","_","r","u","n">>
TN_dbt == <<"d","b","t">>

\* an approval rule without the dbt_ prefix
_needs_approval_by_name(tool_name) == tool_name \in {TN_write_file, TN_edit_file, TN_task}

_needs_approval(tool_name) ==
    \/ tool_name \in {TN_write_file, TN_edit_file, TN_task}
    \/ StartsWith(tool_name, <<"d","b","t","_">>)

\* edited_args: None (the empty set) or {the edited arguments}
ApprovalDecision(decision, edited_args) == [decision |-> decision, edited_args |-> edited_args]

Pending == [done |-> FALSE, result |-> ApprovalDecision("none", Null)]
Resolved(decision) == [done |-> TRUE, result |-> decision]

\* ApprovalBroker.create_future: the future kept for the id unless there is
\* none or it is done; then a new future of the loop takes its place
create_future(kept, loop, approval_id) ==
    IF approval_id \in DOMAIN kept /\ ~loop[kept[approval_id]].done
    THEN [_futures |-> kept, futures |-> loop, fut |-> kept[approval_id]]
    ELSE [_futures |-> Put(kept, approval_id, Len(loop) + 1), futures |-> Append(loop, Pending),
          fut |-> Len(loop) + 1]

\* fut.set_result(decision)
set_result(made, decision) ==
    [_futures |-> made._futures, futures |-> [made.futures EXCEPT ![made.fut] = Resolved(decision)],
     fut |-> made.fut]

Entry(kind, call, approval_id, tool_name, args, decision) ==
    [kind |-> kind, call |-> call, approval_id |-> approval_id, tool_name |-> tool_name,
     args |-> args, decision |-> decision]

NoDecision == ApprovalDecision("none", Null)

ToolCall(pc, tool_name, args, approval_id, fut, decision, ret) ==
    [pc |-> pc, tool_name |-> tool_name, args |-> args, approval_id |-> approval_id, fut |-> fut,
     decision |-> decision, ret |-> ret]

\* awrap_tool_call up to its first await: a tool that needs no approval goes
\* to the handler; otherwise the approval row is written (best effort) and
\* the approval-required event is emitted
AwrapToolCall(tool_name, args, persist_ok) ==
    /\ IF Len(tool_name) = 0 \/ ~_needs_approval(tool_name)
       THEN /\ tool_calls' = Append(tool_calls, ToolCall("done", tool_name, args, Null, Null, NoDecision, "handler"))
            /\ hitl_log' = Append(hitl_log, Entry("handler", Len(tool_calls) + 1, Null, tool_name, args, NoDecision))
            /\ UNCHANGED nextId
       ELSE /\ tool_calls' = Append(tool_calls, ToolCall("emitted", tool_name, args, {nextId}, Null, NoDecision, "none"))
            /\ hitl_log' = hitl_log
                 \o (IF persist_ok
                     THEN <<Entry("create_tool_approval", Len(tool_calls) + 1, {nextId}, tool_name, args, NoDecision)>>
                     ELSE <<>>)
                 \o <<Entry("approval_required", Len(tool_calls) + 1, {nextId}, tool_name, args, NoDecision)>>
            /\ nextId' = nextId + 1
    /\ last' = Call("awrap_tool_call", tool_name, args, None, <<>>, None, NoExc)
    /\ UNCHANGED <<not_hitl_vars, _futures, futures>>

Waiting(c, made) ==
    /\ _futures' = made._futures
    /\ futures' = made.futures
    /\ tool_calls' = [tool_calls EXCEPT ![c].pc = "waiting", ![c].fut = {made.fut}]

\* decision = await self._broker.wait(approval_id): the call suspends on the future
Wait(c) ==
    /\ tool_calls[c].pc = "emitted"
    /\ \E approval_id \in tool_calls[c].approval_id :
          Waiting(c, create_future(_futures, futures, approval_id))
    /\ last' = Call("wait", None, c, None, <<>>, None, NoExc)
    /\ UNCHANGED <<not_hitl_vars, nextId, hitl_log>>

effective_args(args, decision) ==
    IF decision.decision = "edit" /\ decision.edited_args # Null
    THEN CHOOSE a \in decision.edited_args : TRUE ELSE args

Resumed(c, decision) ==
    IF decision.decision = "reject"
    THEN /\ tool_calls' = [tool_calls EXCEPT ![c].pc = "done", ![c].decision = decision, ![c].ret = "rejected"]
         /\ hitl_log' = Append(hitl_log, Entry("decision_applied", c, tool_calls[c].approval_id,
                                               tool_calls[c].tool_name, Null, decision))
    ELSE /\ tool_calls' = [tool_calls EXCEPT ![c].pc = "done", ![c].decision = decision, ![c].ret = "handler",
                                             ![c].args = effective_args(tool_calls[c].args, decision)]
         /\ hitl_log' = hitl_log
              \o <<Entry("decision_applied", c, tool_calls[c].approval_id, tool_calls[c].tool_name,
                         {effective_args(tool_calls[c].args, decision)}, decision),
                   Entry("handler", c, tool_calls[c].approval_id, tool_calls[c].tool_name,
                         effective_args(tool_calls[c].args, decision), decision)>>

\* the awaited future is done: wait returns its result and the call goes on
\* to the rejection message or to the handler
Resume(c) ==
    /\ tool_calls[c].pc = "waiting"
    /\ \E fut \in tool_calls[c].fut :
          /\ futures[fut].done
          /\ Resumed(c, futures[fut].result)
    /\ last' = Call("awrap_tool_call_resumed", None, c, None, <<>>, None, NoExc)
    /\ UNCHANGED <<not_hitl_vars, nextId, _futures, futures>>

Decided(made) ==
    /\ _futures' = made._futures
    /\ futures' = made.futures

\* ApprovalBroker.decide, called for an approval a client has seen the event of
Decide(approval_id, decision) ==
    /\ \E i \in 1..Len(hitl_log) :
          hitl_log[i].kind = "approval_required" /\ hitl_log[i].approval_id = {approval_id}
    /\ Decided(set_result(create_future(_futures, futures, approval_id), decision))
    /\ hitl_log' = Append(hitl_log, Entry("decide", 0, {approval_id}, <<>>, Null, decision))
    /\ last' = Call("decide", None, approval_id, None, <<>>, None, NoExc)
    /\ UNCHANGED <<not_hitl_vars, nextId, tool_calls>>

(***************************************************************************)
(* SpecApproval: tool calls of one run passing the gate while decisions    *)
(* arrive                                                                  *)
(***************************************************************************)
MaxToolCalls == 2
MaxDecisions == 1

A_orig == Put(EmptyDict, "file_path", "/a")
A_edited == Put(EmptyDict, "file_path", "/b")
ToolNames == {TN_write_file, TN_dbt_run, TN_dbt}
Decisions ==
    {ApprovalDecision("approve", Null), ApprovalDecision("reject", Null),
     ApprovalDecision("edit", {A_edited}), ApprovalDecision("edit", Null)}

Entries(kind) == {i \in 1..Len(hitl_log) : hitl_log[i].kind = kind}

NextApproval ==
    \/ /\ Len(tool_calls) < MaxToolCalls
       /\ \E tool_name \in ToolNames, persist_ok \in BOOLEAN : AwrapToolCall(tool_name, A_orig, persist_ok)
    \/ \E c \in 1..Len(tool_calls) : Wait(c)
    \/ \E c \in 1..Len(tool_calls) : Resume(c)
    \/ /\ Cardinality(Entries("decide")) < MaxDecisions
       /\ \E approval_id \in 1..(nextId - 1), decision \in Decisions : Decide(approval_id, decision)

SpecApproval == Init /\ [][NextApproval]_vars

\* the tool names the claim says are gated
RequiresApproval(tool_name) ==
    \/ tool_name \in {TN_write_file, TN_edit_file, TN_task}
    \/ (Len(tool_name) >= 4 /\ SubSeq(tool_name, 1, 4) = <<"d","b","t","_">>)

\* the arguments the claim expects the handler to get after a decision
ArgsAfter(decision) ==
    IF decision.decision = "edit" /\ decision.edited_args # Null THEN decision.edited_args ELSE {A_orig}

\* a handler call of a gated tool comes after the approval-required event of
\* its call and after a decision for that approval id which is not a reject,
\* and it gets the arguments of that decision
HandlerAfterDecision(h) ==
    \E e \in Entries("approval_required"), d \in Entries("decide") :
        /\ e < h /\ d < h
        /\ hitl_log[e].call = hitl_log[h].call
        /\ hitl_log[d].approval_id = hitl_log[e].approval_id
        /\ hitl_log[d].decision.decision # "reject"
        /\ hitl_log[h].args \in ArgsAfter(hitl_log[d].decision)

\* C25: for a tool call whose tool requires approval (write_file, edit_file,
\* task, dbt_*) the approval-required event is emitted before the call waits,
\* the handler is not invoked before a decision for that approval id has
\* arrived, it is never invoked on 'reject' (the rejection message is
\* returned), on 'edit' with edited_args it runs with the edited arguments,
\* and a failure to persist the approval row does not let the call through.
C25_Gate ==
    /\ \A h \in Entries("handler") : RequiresApproval(hitl_log[h].tool_name) => HandlerAfterDecision(h)
    /\ \A c \in 1..Len(tool_calls) : RequiresApproval(tool_calls[c].tool_name) =>
          /\ \E e \in Entries("approval_required") : hitl_log[e].call = c
          /\ tool_calls[c].decision.decision = "reject" =>
                /\ tool_calls[c].ret = "rejected"
                /\ \A h \in Entries("handler") : hitl_log[h].call # c
          /\ tool_calls[c].pc # "done" => \A h \in Entries("handler") : hitl_log[h].call # c

\* a dbt tool whose approval row could not be written runs with the edited
\* arguments after an edit decision, while another gated call is still waiting
C25_Witness ==
    /\ \E h \in Entries("handler") :
          /\ hitl_log[h].tool_name = TN_dbt_run
          /\ hitl_log[h].args = A_edited
          /\ \A p \in Entries("create_tool_approval") : hitl_log[p].call # hitl_log[h].call
    /\ \E c \in 1..Len(tool_calls) : tool_calls[c].pc = "waiting" /\ tool_calls[c].tool_name = TN_write_file

\* the decisions submitted for the approval of a call
Submitted(c) ==
    {hitl_log[d].decision : d \in {d \in Entries("decide") : hitl_log[d].approval_id = tool_calls[c].approval_id}}

\* C26: a decision submitted with ApprovalBroker.decide(approval_id, d) reaches
\* the waiter whether decide ran before wait began or after: once a decision
\* has been submitted no waiter is left on a pending future, and what wait
\* returns is a submitted decision.
C26_DecisionDelivered ==
    \A c \in 1..Len(tool_calls) :
        /\ (tool_calls[c].pc = "waiting" /\ Submitted(c) # {}) =>
              \A fut \in tool_calls[c].fut : futures[fut].done /\ futures[fut].result \in Submitted(c)
        /\ (tool_calls[c].pc = "done" /\ tool_calls[c].approval_id # Null) =>
              tool_calls[c].decision \in Submitted(c)

(***************************************************************************)
(* SpecLifecycle: one source name attached with two types, configs and     *)
(* descriptions, with success and with failure, detached, and one of its   *)
(* tables cached, while time passes.                                       *)
(***************************************************************************)
MaxLifecycleIds == 3
MaxLifecycleClock == 2

NextLifecycle ==
    \/ /\ nextId <= MaxLifecycleIds
       /\ \E i \in AttachInputs, d \in Descriptions, res \in {OK, E_auth} :
             AttachSource(N_pg, i.source_type, i.config, d, res)
    \/ \E detach_ok \in BOOLEAN : DetachSource(N_pg, detach_ok)
    \/ /\ nextId <= MaxLifecycleIds
       /\ \E f \in {None, F_low} : CacheTable(N_pg, T_orders, L_t, f, Null, OK, "none")
    \/ clock < MaxLifecycleClock /\ Tick

SpecLifecycle == Init /\ [][NextLifecycle]_vars

\* the step is an attach_source call that raised AttachError on a name that
\* had a metadata row when the call began
FailedAttachOnRow ==
    /\ last'.op = "attach_source"
    /\ last'.exc.type = "AttachError"
    /\ \E r \in attached : r.name = last'.name

C27_Step ==
    FailedAttachOnRow =>
        /\ vault' = vault
        /\ cached_tables' = cached_tables
        /\ cache_schema' = cache_schema
        /\ {r \in attached' : r.name # last'.name} = {r \in attached : r.name # last'.name}
        /\ \A b \in {r \in attached : r.name = last'.name} :
             {r \in attached' : r.name = last'.name}
               = { [b EXCEPT !.status = "error",
                             !.error_message = last'.exc.message,
                             !.updated_at = {clock}] }

SourceFields(s) ==
    [ id |-> s.id, source_type |-> s.source_type,
      connection_config |-> s.connection_config, status |-> s.status,
      description |-> s.description ]

CacheOk == last.op = "cache_table" /\ last.exc.type = "none"

\* C28: the record a successful attach_source returns equals, in id,
\* source_type, connection_config, status and description, the record that
\* get_source(name) returns right after the call, also when the name had a row
\* before; and the CachedTable that a successful cache_table returns has the id
\* of the row that get_cached_table(local_table) returns right after the call,
\* also when the local table was cached before.
C28_ReturnedIsStored ==
    /\ AttachOk =>
         \E g \in get_source(last.name) : SourceFields(g) = SourceFields(last.ret)
    /\ CacheOk =>
         \E c \in get_cached_table(cached_tables, last.ret.local_table) : c.id = last.ret.id

(***************************************************************************)
(* SpecSync: the cache operations and attach/detach of one source when no  *)
(* statement raises an engine error.  Local table names are valid          *)
(* identifiers; two of them differ only in case.                           *)
(***************************************************************************)
MaxSyncIds == 4
MaxSyncClock == 2

L_T == <<"T">>
SyncLocalNames == {L_t, L_T, L_pg_ord}
SyncInputs ==
    { [local_table |-> L_t, expires_hours |-> Null],
      [local_table |-> L_T, expires_hours |-> {1}],
      [local_table |-> None, expires_hours |-> {1}] }

NextSync ==
    \/ nextId <= MaxSyncIds /\ AttachSource(N_pg, "duckdb", CfgPath, None, OK)
    \/ DetachSource(N_pg, TRUE)
    \/ /\ nextId <= MaxSyncIds
       /\ \E i \in SyncInputs :
             CacheTable(N_pg, T_orders, i.local_table, None, i.expires_hours, OK, "none")
    \/ /\ nextId <= MaxSyncIds
       /\ \E l \in SyncLocalNames : RefreshCache(l, OK, "none")
    \/ \E l \in SyncLocalNames : DropCache(l, TRUE)
    \/ CleanupExpiredCaches({})
    \/ clock < MaxSyncClock /\ Tick

SpecSync == Init /\ [][NextSync]_vars

\* C29: when no call crashes and no statement raises an engine error, after
\* every completed cache_table, refresh_cache, drop_cache,
\* cleanup_expired_caches, attach_source or detach_source call the tables of
\* the cache schema and the rows of cached_tables correspond one to one by
\* local_table: every row has its table, every table has its row, and no two
\* rows name the same table.
C29_CacheOneToOne ==
    /\ \A c \in cached_tables : \E l \in DOMAIN cache_schema : SameTable(l, c.local_table)
    /\ \A l \in DOMAIN cache_schema : \E c \in cached_tables : SameTable(l, c.local_table)
    /\ \A c1, c2 \in cached_tables : SameTable(c1.local_table, c2.local_table) => c1 = c2

\* every name with an entry in the vault has a metadata row that is not 'detached'
C30_VaultHasRow ==
    \A n \in DOMAIN vault : \E r \in attached : r.name = n /\ r.status # "detached"

\* an entry of the vault is written by a successful attach_source of its name,
\* with the config of that call, and by nothing else; a successful
\* attach_source always writes it
C30_Step ==
    /\ (last'.op = "attach_source" /\ last'.exc.type = "none") =>
          (last'.name \in DOMAIN vault' /\ vault'[last'.name] = last'.arg.config)
    /\ \A n \in DOMAIN vault' :
          \/ last'.op = "attach_source" /\ last'.exc.type = "none" /\ last'.name = n
          \/ n \in DOMAIN vault /\ vault'[n] = vault[n]

====
